---------------------------- MODULE Spec2Model ----------------------------
(***************************************************************************)
(* A model of edgarpack's document transformation and sectioning pipeline: *)
(* the sectionizer (parse/sectionize.py), the chunker (pack/chunks.py),    *)
(* the manifest builder (pack/manifest.py, pack/build.py), the HTML        *)
(* sanitizer (parse/html_clean.py) and the inline-XBRL stripper            *)
(* (parse/ixbrl_strip.py).                                                 *)
(*                                                                         *)
(* Text is a sequence of one-character strings, so that slicing, stripping *)
(* and pattern matching are computed the way the Python code computes them.*)
(***************************************************************************)
EXTENDS Integers, Sequences, FiniteSets, TLC

(***************************************************************************)
(* Characters and strings                                                  *)
(***************************************************************************)
UpperChars == <<"A","B","C","D","E","F","G","H","I","J","K","L","M",
                "N","O","P","Q","R","S","T","U","V","W","X","Y","Z">>

LowerChars == <<"a","b","c","d","e","f","g","h","i","j","k","l","m",
                "n","o","p","q","r","s","t","u","v","w","x","y","z">>

UpperSet == {UpperChars[i] : i \in 1..26}

LowerSet == {LowerChars[i] : i \in 1..26}

DigitSet == {"0","1","2","3","4","5","6","7","8","9"}

NL == "\n"

SpaceSet == {" ", NL, "\t"}

\* [A-Za-z0-9_]: what \b and \w see as a word character.
WordSet == UpperSet \cup LowerSet \cup DigitSet \cup {"_"}

\* _SEP_CHARS (the en and em dashes are written "~n" and "~m").
SepSet == {"-", "~n", "~m", ".", ",", ":", ";"}

LowerC(c) == IF c \in UpperSet
             THEN LowerChars[CHOOSE i \in 1..26 : UpperChars[i] = c]
             ELSE c

UpperC(c) == IF c \in LowerSet
             THEN UpperChars[CHOOSE i \in 1..26 : LowerChars[i] = c]
             ELSE c

\* str.lower(), str.upper()
Lower(s) == [i \in 1..Len(s) |-> LowerC(s[i])]

Upper(s) == [i \in 1..Len(s) |-> UpperC(s[i])]

\* s[a:b] with Python's 0-based, end-exclusive, clamped indices (a, b >= 0).
Slice(s, a, b) ==
  LET hi == IF b > Len(s) THEN Len(s) ELSE b
  IN IF a >= hi THEN <<>> ELSE SubSeq(s, a + 1, hi)

\* The first position >= i (1-based) of s that holds no character of S; Len(s)+1 if none.
SkipSet(s, i, S) ==
  CHOOSE j \in i..(Len(s) + 1) :
     /\ \A k \in i..(j - 1) : s[k] \in S
     /\ (j = Len(s) + 1 \/ s[j] \notin S)

\* str.strip(), str.lstrip(), str.rstrip() on whitespace
LStrip(s) == SubSeq(s, SkipSet(s, 1, SpaceSet), Len(s))

RStrip(s) ==
  LET j == CHOOSE j \in 0..Len(s) :
             /\ \A k \in (j + 1)..Len(s) : s[k] \in SpaceSet
             /\ (j = 0 \/ s[j] \notin SpaceSet)
  IN SubSeq(s, 1, j)

Strip(s) == RStrip(LStrip(s))

\* Whether w occurs in s at position i (1-based), compared case-insensitively.
AtCI(s, i, w) ==
  /\ i >= 1
  /\ i + Len(w) - 1 <= Len(s)
  /\ \A k \in 1..Len(w) : UpperC(s[i + k - 1]) = UpperC(w[k])

\* The regex \b at the gap before position i (1-based; i = Len(s)+1 is the end).
WordBoundary(s, i) ==
  LET before == i > 1 /\ s[i - 1] \in WordSet
      after  == i <= Len(s) /\ s[i] \in WordSet
  IN before # after

RECURSIVE Join(_, _)
\* sep.join(parts)
Join(parts, sep) ==
  IF parts = <<>> THEN <<>>
  ELSE IF Len(parts) = 1 THEN parts[1]
  ELSE parts[1] \o sep \o Join(Tail(parts), sep)

\* filter(None, parts): the non-empty strings of parts, in order
NonEmpty(parts) == SelectSeq(parts, LAMBDA p : p # <<>>)

RECURSIVE DecStr(_)
\* str(n) for n >= 0
DecStr(n) ==
  LET d == <<"0","1","2","3","4","5","6","7","8","9">>
  IN IF n < 10 THEN <<d[n + 1]>> ELSE DecStr(n \div 10) \o <<d[(n % 10) + 1]>>

(***************************************************************************)
(* parse/sectionize.py: the heading patterns                               *)
(***************************************************************************)
W_PART == <<"P","A","R","T">>

W_ITEM == <<"I","T","E","M">>

W_CONSOLIDATED == <<"C","O","N","S","O","L","I","D","A","T","E","D">>

W_CONTENTS == <<"C","O","N","T","E","N","T","S">>

W_EXHIBIT == <<"E","X","H","I","B","I","T">>

W_EXHIBITS == <<"E","X","H","I","B","I","T","S">>

W_FINANCIAL == <<"F","I","N","A","N","C","I","A","L">>

W_INDEX == <<"I","N","D","E","X">>

W_NOTES == <<"N","O","T","E","S">>

W_OF == <<"O","F">>

W_SIGNATURE == <<"S","I","G","N","A","T","U","R","E">>

W_SIGNATURES == <<"S","I","G","N","A","T","U","R","E","S">>

W_STATEMENTS == <<"S","T","A","T","E","M","E","N","T","S">>

W_TABLE == <<"T","A","B","L","E">>

W_TO == <<"T","O">>

RomanSet == {"I", "V", "X", "i", "v", "x"}

NoMatch == [ok |-> FALSE, part |-> <<>>, item |-> <<>>, title |-> <<>>, end |-> 0]

\* The shared prefix ^(?:#+\s*)?(?:[.)]\s*)?(?:\d+\s*)? : the position (1-based) after it.
HeadPrefix(s) ==
  LET p1 == IF Len(s) >= 1 /\ s[1] = "#"
            THEN SkipSet(s, SkipSet(s, 1, {"#"}), SpaceSet) ELSE 1
      p2 == IF p1 <= Len(s) /\ s[p1] \in {".", ")"}
            THEN SkipSet(s, p1 + 1, SpaceSet) ELSE p1
      p3 == IF p2 <= Len(s) /\ s[p2] \in DigitSet
            THEN SkipSet(s, SkipSet(s, p2, DigitSet), SpaceSet) ELSE p2
  IN p3

\* PART\s+(?P<part>[IVX]+)\b matched at position p, ignoring case.
PartAt(s, p) ==
  LET q == SkipSet(s, p + 4, SpaceSet)
      r == SkipSet(s, q, RomanSet)
  IN IF AtCI(s, p, W_PART) /\ q > p + 4 /\ r > q /\ WordBoundary(s, r)
     THEN [ok |-> TRUE, part |-> SubSeq(s, q, r - 1), item |-> <<>>,
           title |-> <<>>, end |-> r]
     ELSE NoMatch

\* (?:\s*SEP\s*)?(?P<title>.*)$ from position e: the title group.
TitleFrom(s, e) ==
  LET t == SkipSet(s, e, SpaceSet)
  IN IF t <= Len(s) /\ s[t] \in SepSet
     THEN SubSeq(s, SkipSet(s, t + 1, SpaceSet), Len(s))
     ELSE SubSeq(s, e, Len(s))

\* ITEM\s*(?P<item>\d+[A-Z]?)\b matched at position p, ignoring case.
Item10KAt(s, p) ==
  LET q == SkipSet(s, p + 4, SpaceSet)
      d == SkipSet(s, q, DigitSet)
      letter == d <= Len(s) /\ s[d] \in (UpperSet \cup LowerSet)
      e == IF letter /\ WordBoundary(s, d + 1) THEN d + 1 ELSE d
  IN IF AtCI(s, p, W_ITEM) /\ d > q /\ WordBoundary(s, e)
     THEN [ok |-> TRUE, part |-> <<>>, item |-> SubSeq(s, q, e - 1),
           title |-> <<>>, end |-> e]
     ELSE NoMatch

\* ITEM\s+(?P<item>\d+\.\d+)\b matched at position p, ignoring case.
Item8KAt(s, p) ==
  LET q  == SkipSet(s, p + 4, SpaceSet)
      d1 == SkipSet(s, q, DigitSet)
      d2 == SkipSet(s, d1 + 1, DigitSet)
  IN IF /\ AtCI(s, p, W_ITEM) /\ q > p + 4 /\ d1 > q
        /\ d1 <= Len(s) /\ s[d1] = "." /\ d2 > d1 + 1
        /\ WordBoundary(s, d2)
     THEN [ok |-> TRUE, part |-> <<>>, item |-> SubSeq(s, q, d2 - 1),
           title |-> <<>>, end |-> d2]
     ELSE NoMatch

\* ITEM_PATTERN_10K.match(s)
ITEM_PATTERN_10K(s) ==
  LET p3 == HeadPrefix(s)
      pm == PartAt(s, p3)
      a  == SkipSet(s, pm.end, SpaceSet)
      b  == IF a <= Len(s) /\ s[a] \in SepSet THEN a + 1 ELSE a
      p4 == IF pm.ok THEN SkipSet(s, b, SpaceSet) ELSE p3
      im == Item10KAt(s, p4)
  IN IF im.ok
     THEN [ok |-> TRUE, part |-> pm.part, item |-> im.item,
           title |-> TitleFrom(s, im.end), end |-> Len(s) + 1]
     ELSE NoMatch

\* ITEM_PATTERN_8K.match(s)
ITEM_PATTERN_8K(s) ==
  LET im == Item8KAt(s, HeadPrefix(s))
  IN IF im.ok
     THEN [ok |-> TRUE, part |-> <<>>, item |-> im.item,
           title |-> TitleFrom(s, im.end), end |-> Len(s) + 1]
     ELSE NoMatch

\* PART_HEADING_PATTERN.match(s)
PART_HEADING_PATTERN(s) ==
  LET pm == PartAt(s, HeadPrefix(s))
      t  == SkipSet(s, pm.end, SpaceSet)
  IN IF pm.ok /\ (pm.end = Len(s) + 1 \/ (t <= Len(s) /\ s[t] \in SepSet))
     THEN [pm EXCEPT !.end = Len(s) + 1]
     ELSE NoMatch

RECURSIVE WordsFrom(_, _)
\* The whitespace-separated words of s from position i on.
WordsFrom(s, i) ==
  LET a == SkipSet(s, i, SpaceSet)
      b == CHOOSE j \in a..(Len(s) + 1) :
             /\ \A k \in a..(j - 1) : s[k] \notin SpaceSet
             /\ (j = Len(s) + 1 \/ s[j] \in SpaceSet)
  IN IF a > Len(s) THEN <<>> ELSE <<SubSeq(s, a, b - 1)>> \o WordsFrom(s, b)

\* The alternatives of TITLED_SECTION_PATTERN, as word sequences.
TitledVocabulary ==
  {  <<W_SIGNATURE>>,
     <<W_SIGNATURES>>,
     <<W_INDEX, W_TO, W_STATEMENTS>>,
     <<W_INDEX, W_TO, W_EXHIBITS>>,
     <<W_INDEX, W_TO, W_FINANCIAL, W_STATEMENTS>>,
     <<W_INDEX, W_TO, W_FINANCIAL, W_EXHIBITS>>,
     <<W_TABLE, W_OF, W_CONTENTS>>,
     <<W_EXHIBIT, W_INDEX>>,
     <<W_EXHIBITS, W_INDEX>>,
     <<W_FINANCIAL, W_STATEMENTS>>,
     <<W_NOTES, W_TO, W_FINANCIAL, W_STATEMENTS>>,
     <<W_NOTES, W_TO, W_CONSOLIDATED, W_FINANCIAL, W_STATEMENTS>> }

\* TITLED_SECTION_PATTERN.match(s): the title group is the text after the hashes.
TITLED_SECTION_PATTERN(s) ==
  LET p1 == IF Len(s) >= 1 /\ s[1] = "#"
            THEN SkipSet(s, SkipSet(s, 1, {"#"}), SpaceSet) ELSE 1
      ws == WordsFrom(s, p1)
      up == [i \in 1..Len(ws) |-> Upper(ws[i])]
  IN IF p1 <= Len(s) /\ s[p1] \notin SpaceSet /\ up \in TitledVocabulary
     THEN [ok |-> TRUE, part |-> <<>>, item |-> <<>>,
           title |-> RStrip(SubSeq(s, p1, Len(s))), end |-> Len(s) + 1]
     ELSE NoMatch

\* re.search(r"\btable\s+of\s+contents\b", s, IGNORECASE) is not None
HasTocHeader(s) ==
  \E i \in 1..Len(s) :
    LET a == SkipSet(s, i + 5, SpaceSet)
        b == SkipSet(s, a + 2, SpaceSet)
    IN /\ WordBoundary(s, i) /\ AtCI(s, i, W_TABLE)
       /\ a > i + 5 /\ AtCI(s, a, W_OF)
       /\ b > a + 2 /\ AtCI(s, b, W_CONTENTS)
       /\ WordBoundary(s, b + 8)

(***************************************************************************)
(* parse/sectionize.py: slugify, section_id, form normalization            *)
(***************************************************************************)
\* The positions (1-based) of s that hold a character of S.
Positions(s, S) == {i \in 1..Len(s) : s[i] \in S}

\* Whether w occurs in s at position i, compared exactly.
At(s, i, w) ==
  /\ i >= 1
  /\ i + Len(w) - 1 <= Len(s)
  /\ \A k \in 1..Len(w) : s[i + k - 1] = w[k]

\* w in s
Contains(s, w) == \E i \in 1..(Len(s) + 1) : At(s, i, w)

RECURSIVE ReplaceAll(_, _, _)
\* s.replace(w, r), for a non-empty w
ReplaceAll(s, w, r) ==
  LET hits == {i \in 1..Len(s) : At(s, i, w)}
      j == CHOOSE i \in hits : \A k \in hits : i <= k
  IN IF hits = {} THEN s
     ELSE SubSeq(s, 1, j - 1) \o r \o ReplaceAll(SubSeq(s, j + Len(w), Len(s)), w, r)

RECURSIVE CollapseRuns(_, _, _)
\* re.sub("[S]+", r, s): every maximal run of characters of S becomes r
CollapseRuns(s, S, r) ==
  LET hits == Positions(s, S)
      j == CHOOSE i \in hits : \A k \in hits : i <= k
  IN IF hits = {} THEN s
     ELSE SubSeq(s, 1, j - 1) \o r
          \o CollapseRuns(SubSeq(s, SkipSet(s, j, S), Len(s)), S, r)

\* s.strip(chars)
StripSet(s, S) ==
  LET a == SkipSet(s, 1, S)
      b == CHOOSE j \in 0..Len(s) :
             /\ \A k \in (j + 1)..Len(s) : s[k] \in S
             /\ (j = 0 \/ s[j] \notin S)
  IN IF a > b THEN <<>> ELSE SubSeq(s, a, b)

\* s.rsplit(c, 1)[0], for an s that holds c
RSplitHead(s, c) ==
  LET j == CHOOSE j \in 1..Len(s) : s[j] = c /\ \A k \in (j + 1)..Len(s) : s[k] # c
  IN SubSeq(s, 1, j - 1)

SLUG_MAX_LEN == 30

TITLE_KEY_MAX_LEN == 60

\* slugify(text, max_len)
slugify(text, max_len) ==
  LET t1 == Lower(text)
      t2 == ReplaceAll(t1, <<" ","a","n","d"," ">>, <<"_">>)
      t3 == ReplaceAll(t2, <<"&">>, <<"_">>)
      t4 == SelectSeq(t3, LAMBDA c : c \in LowerSet \cup DigitSet \cup SpaceSet \cup {"_"})
      t5 == CollapseRuns(t4, SpaceSet, <<"_">>)
      t6 == StripSet(t5, {"_"})
      t7 == CollapseRuns(t6, {"_"}, <<"_">>)
      head == Slice(t7, 0, max_len)
  IN IF Len(t7) > max_len
     THEN IF Contains(head, <<"_">>) THEN RSplitHead(head, "_") ELSE head
     ELSE t7

F_10K == <<"1","0","-","K">>

F_10Q == <<"1","0","-","Q">>

F_8K == <<"8","-","K">>

\* The mutant of normalize_form_type_for_sections: the amendment suffix is kept.
normalize_keep_amendment(form_type) ==
  LET form == SelectSeq(Upper(Strip(form_type)), LAMBDA c : c # " ")
  IN IF form_type = <<>> THEN <<>>
     ELSE IF form \in {<<"1","0","K">>, F_10K} THEN F_10K
     ELSE IF form \in {<<"1","0","Q">>, F_10Q} THEN F_10Q
     ELSE IF form \in {<<"8","K">>, F_8K} THEN F_8K
     ELSE form

\* normalize_form_type_for_sections(form_type)
normalize_form_type_for_sections(form_type) ==
  LET form0 == SelectSeq(Upper(Strip(form_type)), LAMBDA c : c # " ")
      amended == At(form0, Len(form0) - 1, <<"/","A">>)
      form == IF amended THEN Slice(form0, 0, Len(form0) - 2) ELSE form0
  IN IF form_type = <<>> THEN <<>>
     ELSE IF form \in {<<"1","0","K">>, F_10K} THEN F_10K
     ELSE IF form \in {<<"1","0","Q">>, F_10Q} THEN F_10Q
     ELSE IF form \in {<<"8","K">>, F_8K} THEN F_8K
     ELSE form

\* section_id(form, part, item, title); a part of None is the empty string
section_id(form, part, item, title) ==
  LET normalized_form == normalize_form_type_for_sections(form)
      form_lower == SelectSeq(Lower(normalized_form),
                              LAMBDA c : c \in LowerSet \cup DigitSet)
      slug == IF title # <<>> THEN slugify(title, SLUG_MAX_LEN) ELSE <<>>
      partp == IF part # <<>> THEN <<(<<"p","a","r","t">> \o Lower(part))>> ELSE <<>>
      itemp == <<"i","t","e","m">> \o Lower(item)
      slugp == IF slug # <<>> THEN <<slug>> ELSE <<>>
  IN IF normalized_form \in {F_10K, F_10Q}
     THEN Join(<<(IF normalized_form = F_10K THEN <<"1","0","k">> ELSE <<"1","0","q">>)>>
               \o partp \o <<itemp>> \o slugp, <<"_">>)
     ELSE IF normalized_form = F_8K
     THEN Join(NonEmpty(<<(<<"8","k","_","i","t","e","m","_">>
                          \o ReplaceAll(item, <<".">>, <<"_">>))>> \o slugp), <<"_">>)
     ELSE Join(NonEmpty(<<form_lower>> \o partp
                        \o (IF item # <<>> THEN <<itemp>> ELSE <<>>) \o slugp), <<"_">>)

(***************************************************************************)
(* parse/sectionize.py: the helpers nested in find_sections                *)
(***************************************************************************)
\* _is_table_row(s)
IsTableRow(s) ==
  /\ Len(s) >= 1
  /\ s[1] = "|"
  /\ Cardinality(Positions(s, {"|"})) >= 2

RECURSIVE SplitPipes(_, _)
\* re.split(r"(?<!\\)\|", row): the parts of row from position i on.
SplitPipes(row, i) ==
  LET cuts == {j \in i..Len(row) : row[j] = "|" /\ (j = 1 \/ row[j - 1] # "\\")}
      j == CHOOSE j \in cuts : \A k \in cuts : j <= k
  IN IF cuts = {} THEN <<SubSeq(row, i, Len(row))>>
     ELSE <<SubSeq(row, i, j - 1)>> \o SplitPipes(row, j + 1)

\* _split_table_cells(row)
SplitTableCells(row) ==
  LET p0 == SplitPipes(row, 1)
      p1 == IF p0 # <<>> /\ Strip(p0[1]) = <<>> THEN Tail(p0) ELSE p0
      p2 == IF p1 # <<>> /\ Strip(p1[Len(p1)]) = <<>>
            THEN SubSeq(p1, 1, Len(p1) - 1) ELSE p1
  IN [i \in 1..Len(p2) |-> Strip(p2[i])]

\* _extract_part(cell): the upper-cased part, or the empty string for None
ExtractPart(cell) ==
  LET pm == PART_HEADING_PATTERN(cell)
      hits == {i \in 1..Len(cell) : WordBoundary(cell, i) /\ PartAt(cell, i).ok}
      first == CHOOSE i \in hits : \A k \in hits : i <= k
  IN IF pm.ok THEN Upper(pm.part)
     ELSE IF hits # {} THEN Upper(PartAt(cell, first).part)
     ELSE <<>>

\* The heading grammar of a form: ITEM_PATTERN_8K or ITEM_PATTERN_10K.
ItemPattern(g, s) == IF g = "8K" THEN ITEM_PATTERN_8K(s) ELSE ITEM_PATTERN_10K(s)

\* The item regex of the inline and cell scans, matched at position p.
ItemAt(g, s, p) == IF g = "8K" THEN Item8KAt(s, p) ELSE Item10KAt(s, p)

\* The first match of a sequence of match results; NoMatch if there is none.
FirstMatch(ms) ==
  LET hits == {i \in 1..Len(ms) : ms[i].ok}
  IN IF hits = {} THEN NoMatch ELSE ms[CHOOSE i \in hits : \A k \in hits : i <= k]

\* Lines 251-256: item_regex matches cell at i, and pattern.match on the tail from there.
TailMatch(g, cell, i) ==
  IF ItemAt(g, cell, i).ok
  THEN ItemPattern(g, Strip(SubSeq(cell, i, Len(cell)))) ELSE NoMatch

\* _match_item_in_cell(cell, pattern, item_regex),
\* with the whole cell first (line 248), then the tail from every match of
\* item_regex (lines 251-257): the first the pattern matches.
MatchItemInCell(g, cell) ==
  FirstMatch(<<ItemPattern(g, cell)>> \o [i \in 1..Len(cell) |-> TailMatch(g, cell, i)])

RECURSIVE SplitCamel(_)
\* re.sub(r"([a-z0-9])([A-Z])", r"\1 \2", t)
SplitCamel(t) ==
  LET gaps == {i \in 2..Len(t) : t[i - 1] \in LowerSet \cup DigitSet /\ t[i] \in UpperSet}
      j == CHOOSE i \in gaps : \A k \in gaps : i <= k
  IN IF gaps = {} THEN t
     ELSE SubSeq(t, 1, j - 1) \o <<" ">> \o SplitCamel(SubSeq(t, j, Len(t)))

\* _clean_title(raw)
CleanTitle(raw) == SplitCamel(Strip(CollapseRuns(raw, SpaceSet, <<" ">>)))

TITLE_MAX_LEN == 100

\* _truncate_title(t)
TruncateTitle(t) ==
  LET head == Slice(t, 0, TITLE_MAX_LEN)
  IN IF Len(t) <= TITLE_MAX_LEN THEN t
     ELSE IF Contains(head, <<" ">>) THEN RSplitHead(head, " ") ELSE head

\* _should_ignore_title(title)
ShouldIgnoreTitle(title) ==
  LET upper == Strip(Upper(title))
      PROSPECTUS == <<"P","R","O","S","P","E","C","T","U","S">>
  IN \/ Contains(upper, W_TABLE \o <<" ">> \o W_OF \o <<" ">> \o W_CONTENTS)
     \/ upper \in { PROSPECTUS,
                    PROSPECTUS \o <<" ","S","U","P","P","L","E","M","E","N","T">>,
                    <<"P","R","E","L","I","M","I","N","A","R","Y"," ">> \o PROSPECTUS,
                    <<"F","I","N","A","L"," ">> \o PROSPECTUS }
     \/ At(upper, 1, PROSPECTUS \o <<" ","D","A","T","E","D">>)

\* _is_valid_general_heading(title, line, start), start a 0-based offset
IsValidGeneralHeading(title, line, start) ==
  LET letters == Cardinality(Positions(title, UpperSet \cup LowerSet))
      uppers  == Cardinality(Positions(title, UpperSet))
  IN /\ title # <<>>
     /\ ~ShouldIgnoreTitle(title)
     /\ Strip(Slice(line, 0, start)) = <<>>
     /\ letters >= 4
     /\ 5 * uppers >= 4 * letters

\* The character class of BOLD_HEADING_PATTERN after its first character.
BoldSet == UpperSet \cup DigitSet \cup {" ", "&", "/", "(", ")", ".", ",", "'", "-", "~n", "~m"}

\* BOLD_HEADING_PATTERN matched at position p: **title** with the shortest title.
BoldAt(s, p) ==
  LET a == p + 2
      e == SkipSet(s, a + 1, BoldSet)
  IN IF /\ At(s, p, <<"*","*">>) /\ a <= Len(s)
        /\ s[a] \in UpperSet \cup DigitSet
        /\ e > a + 1 /\ At(s, e, <<"*","*">>)
     THEN [ok |-> TRUE, part |-> <<>>, item |-> <<>>,
           title |-> SubSeq(s, a, e - 1), end |-> e + 2]
     ELSE NoMatch

RECURSIVE BoldMatches(_, _)
\* BOLD_HEADING_PATTERN.finditer(s) from position i: <<0-based start, title>> pairs
BoldMatches(s, i) ==
  LET hits == {j \in i..Len(s) : BoldAt(s, j).ok}
      j == CHOOSE j \in hits : \A k \in hits : j <= k
  IN IF hits = {} THEN <<>>
     ELSE <<[start |-> j - 1, title |-> BoldAt(s, j).title]>>
          \o BoldMatches(s, BoldAt(s, j).end)

INLINE_MIN_START == 20

\* The character before an inline marker that lets the marker count.
InlinePrevOk(c) == c \in LowerSet \cup DigitSet \cup {".", ":", ";", ")", "|", "]"}

\* The inline scan's PART events of a line: 0-based starts.
InlinePartStarts(line) ==
  {i - 1 : i \in {i \in 1..Len(line) :
                    /\ PartAt(line, i).ok
                    /\ i - 1 >= INLINE_MIN_START
                    /\ InlinePrevOk(line[i - 1])}}

\* The inline scan's ITEM events of a line: 0-based starts.
InlineItemStarts(g, line) ==
  {i - 1 : i \in {i \in 1..Len(line) :
                    /\ ItemAt(g, line, i).ok
                    /\ i - 1 >= INLINE_MIN_START
                    /\ InlinePrevOk(line[i - 1])}}

(***************************************************************************)
(* find_sections: what the loop body computes from the line alone          *)
(***************************************************************************)
RECURSIVE SortedSeq(_)
\* sorted(S) for a finite set of integers
SortedSeq(S) ==
  LET m == CHOOSE x \in S : \A y \in S : x <= y
  IN IF S = {} THEN <<>> ELSE <<m>> \o SortedSeq(S \ {m})

\* The first index of a sequence of match records that matched; 0 if none.
FirstOk(ms) ==
  LET hits == {i \in 1..Len(ms) : ms[i].ok}
  IN IF hits = {} THEN 0 ELSE CHOOSE i \in hits : \A k \in hits : i <= k

\* Lines 346-349: the part of the first cell of a table row that names one.
FirstPart(parts) ==
  LET hits == {i \in 1..Len(parts) : parts[i] # <<>>}
  IN IF hits = {} THEN <<>> ELSE parts[CHOOSE i \in hits : \A k \in hits : i <= k]

CellParts(cells) == [i \in 1..Len(cells) |-> ExtractPart(cells[i])]

\* Lines 352-354: the upper-cased part of a PART heading.
PartOf(pm) == IF pm.ok THEN Upper(pm.part) ELSE <<>>

\* Lines 345-354: the part a line sets current_part to; the empty string if none.
LinePart(line_stripped, is_table) ==
  IF is_table THEN FirstPart(CellParts(SplitTableCells(line_stripped)))
  ELSE PartOf(PART_HEADING_PATTERN(line_stripped))

\* Lines 398-404 and 444-450: the title of the matched cell idx, or the next cell.
RowTitle(cells, ms, idx) ==
  [ms[idx] EXCEPT !.title = IF Strip(@) = <<>> /\ idx + 1 <= Len(cells)
                            THEN cells[idx + 1] ELSE Strip(@)]

\* Lines 392-397 and 438-443: the first cell of the row with an item heading.
RowItemOf(cells, ms) ==
  IF FirstOk(ms) = 0 THEN NoMatch ELSE RowTitle(cells, ms, FirstOk(ms))

RowCells(g, cells) ==
  RowItemOf(cells, [i \in 1..Len(cells) |-> MatchItemInCell(g, cells[i])])

\* Lines 389-404 and 435-454: the item heading of a table row under grammar g,
\* its title taken from the next cell when the matched cell has none.
RowItem(g, line_stripped) == RowCells(g, SplitTableCells(line_stripped))

\* match.group("title").strip() of a match
StripTitle(m) == IF m.ok THEN [m EXCEPT !.title = Strip(@)] ELSE NoMatch

\* Lines 406-409 and 456-463: the item heading of a whole line under grammar g.
LineItem(g, line_stripped) == StripTitle(ItemPattern(g, line_stripped))

\* Lines 421-432 and 476-498: the inline event at a 0-based start: a PART (one of
\* parts) or an ITEM, its title matched on the rest of the line.
InlineEvent(g, line, parts, start) ==
  IF start \in parts
  THEN [start |-> start, kind |-> "part",
        value |-> Upper(PartAt(line, start + 1).part), title |-> <<>>]
  ELSE [start |-> start, kind |-> "item",
        value |-> ItemAt(g, line, start + 1).item,
        title |-> LineItem(g, Strip(Slice(line, start, Len(line)))).title]

InlineEventsAt(g, line, parts, items) ==
  LET starts == SortedSeq(parts \cup items)
  IN [i \in 1..Len(starts) |-> InlineEvent(g, line, parts, starts[i])]

\* Lines 418-432 and 471-498: the inline scan's events of a line, ordered by start.
InlineEvents(g, line) ==
  InlineEventsAt(g, line, IF g = "8K" THEN {} ELSE InlinePartStarts(line),
                 InlineItemStarts(g, line))

\* Lines 357-383: the heading candidates of a line of a general form, in the
\* order the loop meets them, each with its validity and its title key.
GeneralCandidates(line, line_stripped) ==
  LET bolds == BoldMatches(line, 1)
      bold(i) ==
        LET title == Strip(bolds[i].title)
        IN [start |-> bolds[i].start, title |-> title,
            valid |-> IsValidGeneralHeading(title, line, bolds[i].start),
            key |-> slugify(title, TITLE_KEY_MAX_LEN)]
      hash_title == Strip(SubSeq(line_stripped, SkipSet(line_stripped, 1, {"#"}),
                                 Len(line_stripped)))
      hash_at == (CHOOSE i \in 1..Len(line) : line[i] = "#") - 1
      hash == IF line_stripped # <<>> /\ line_stripped[1] = "#"
              THEN <<[start |-> 0, title |-> hash_title,
                      valid |-> IsValidGeneralHeading(hash_title, line, hash_at),
                      key |-> slugify(hash_title, TITLE_KEY_MAX_LEN)]>>
              ELSE <<>>
  IN [i \in 1..Len(bolds) |-> bold(i)] \o hash

\* Lines 501-505: the titled section of a line by itself.
LineTitled(line_stripped) ==
  LET m == TITLED_SECTION_PATTERN(line_stripped)
  IN IF m.ok /\ ~ShouldIgnoreTitle(m.title) THEN m ELSE NoMatch

\* Everything the loop body of find_sections reads off one line.
LineScan(line) ==
  LET line_stripped == Strip(line)
      is_table == IsTableRow(line_stripped)
  IN [ len      |-> Len(line),
       blank    |-> line_stripped = <<>>,
       toc      |-> HasTocHeader(line_stripped),
       is_table |-> is_table,
       part     |-> LinePart(line_stripped, is_table),
       general  |-> GeneralCandidates(line, line_stripped),
       item10k  |-> IF is_table THEN RowItem("10K", line_stripped)
                    ELSE LineItem("10K", line_stripped),
       item8k   |-> IF is_table THEN RowItem("8K", line_stripped)
                    ELSE LineItem("8K", line_stripped),
       inline10k |-> IF is_table THEN <<>> ELSE InlineEvents("10K", line),
       inline8k  |-> IF is_table THEN <<>> ELSE InlineEvents("8K", line),
       titled   |-> IF is_table THEN NoMatch ELSE LineTitled(line_stripped) ]

(***************************************************************************)
(* find_sections: the scan state and one iteration of the loop             *)
(***************************************************************************)
W_OTHER == <<"o","t","h","e","r">>

\* The scan state before the first line (lines 203-222, 272).
ScanInit ==
  [ toc_armed |-> FALSE, in_toc_table |-> FALSE, current_part |-> <<>>,
    seen_titles |-> {}, matches |-> <<>> ]

\* _add_item_match(item, title, part, char_pos), into the list ms
AddItemMatch(ms, line_num, form_type, item, title, part, char_pos) ==
  Append(ms, [ line_num |-> line_num, char_pos |-> char_pos, part |-> part,
               item |-> item, title |-> TruncateTitle(CleanTitle(title)),
               form_type |-> form_type ])

RECURSIVE GeneralFold(_, _, _, _, _, _)
\* Lines 357-383: the candidates of one line, in order, against seen_titles.
GeneralFold(cands, st, line_num, offset, form_type, i) ==
  LET c == cands[i]
      take == c.valid /\ c.key \notin st.seen_titles
      st1 == IF take
             THEN [st EXCEPT !.seen_titles = @ \cup {c.key},
                             !.matches = AddItemMatch(@, line_num, form_type, W_OTHER,
                                                      c.title, <<>>, offset + c.start)]
             ELSE st
  IN IF i > Len(cands) THEN st
     ELSE GeneralFold(cands, st1, line_num, offset, form_type, i + 1)

RECURSIVE InlineFold(_, _, _, _, _, _, _)
\* Lines 418-432 and 486-498: the inline events of one line, in order.
InlineFold(evs, st, line_num, offset, form_type, is8k, i) ==
  LET e == evs[i]
      st1 == IF e.kind = "part"
             THEN [st EXCEPT !.current_part = e.value]
             ELSE [st EXCEPT !.matches =
                     AddItemMatch(@, line_num, form_type, e.value, e.title,
                                  IF is8k THEN <<>> ELSE st.current_part,
                                  offset + e.start)]
  IN IF i > Len(evs) THEN st
     ELSE InlineFold(evs, st1, line_num, offset, form_type, is8k, i + 1)

\* Lines 322-342: the TOC-suppression state after the line, and whether the
\* line is skipped as a row of the table of contents.
TocStep(st, info) ==
  LET armed1 == st.toc_armed \/ info.toc
      leave  == st.in_toc_table /\ ~info.is_table
      in1    == st.in_toc_table /\ ~leave
      armed2 == armed1 /\ ~leave
      in2    == in1 \/ (info.is_table /\ armed2 /\ ~in1)
  IN IF info.blank
     THEN [ toc_armed |-> st.toc_armed /\ ~st.in_toc_table,
            in_toc_table |-> FALSE, skip |-> TRUE ]
     ELSE [ toc_armed |-> armed2, in_toc_table |-> in2,
            skip |-> in2 /\ info.is_table ]

\* Lines 387-498: the item headings of a line of an 8-K.
Scan8K(st, info, line_num, offset, form_type) ==
  LET m == info.item8k
      st1 == IF m.ok
             THEN [st EXCEPT !.matches =
                     AddItemMatch(@, line_num, form_type, m.item, m.title, <<>>, offset)]
             ELSE st
  IN InlineFold(info.inline8k, st1, line_num, offset, form_type, TRUE, 1)

\* Lines 433-498: the item headings of a line of a 10-K or 10-Q.
Scan10K(st, info, line_num, offset, form_type) ==
  LET m == info.item10k
      part0 == IF m.part # <<>> THEN m.part ELSE st.current_part
      part  == Upper(part0)
      st1 == IF m.ok
             THEN [st EXCEPT !.current_part = IF part0 # <<>> THEN part ELSE @,
                             !.matches = AddItemMatch(@, line_num, form_type, m.item,
                                                      m.title, part, offset)]
             ELSE st
  IN InlineFold(info.inline10k, st1, line_num, offset, form_type, FALSE, 1)

\* Lines 500-511: the titled section of a line by itself.
ScanTitled(st, info, line_num, offset, form_type) ==
  IF info.titled.ok
  THEN [st EXCEPT !.matches =
          AddItemMatch(@, line_num, form_type, W_OTHER, info.titled.title,
                       st.current_part, offset)]
  ELSE st

\* form_upper and is_general_form (lines 213-214)
FormUpper(form_type) == Upper(normalize_form_type_for_sections(form_type))

IsGeneralForm(form_type) == FormUpper(form_type) \notin {F_10K, F_10Q, F_8K}

\* A part that does not outlast the line it was read on.
PartOfLineOnly(current_part, part) == part

\* Lines 344-354: current_part after a line whose PART heading, if any, is part.
CarryPart(current_part, part) == IF part # <<>> THEN part ELSE current_part

\* One iteration of the loop of find_sections (lines 319-511) on the line with
\* scan results info, at 0-based line number line_num and character offset offset.
ScanLine(st, info, line_num, offset, form_type) ==
  LET toc == TocStep(st, info)
      st0 == [st EXCEPT !.toc_armed = toc.toc_armed,
                        !.in_toc_table = toc.in_toc_table]
      st1 == [st0 EXCEPT !.current_part = CarryPart(@, info.part)]
  IN IF toc.skip THEN st0
     ELSE IF IsGeneralForm(form_type)
     THEN GeneralFold(info.general, st1, line_num, offset, form_type, 1)
     ELSE ScanTitled(IF FormUpper(form_type) = F_8K
                     THEN Scan8K(st1, info, line_num, offset, form_type)
                     ELSE Scan10K(st1, info, line_num, offset, form_type),
                     info, line_num, offset, form_type)

(***************************************************************************)
(* find_sections: sort and dedupe (lines 513-523); sectionize              *)
(***************************************************************************)
\* The sort key of one match against another, in descending order.
KeyGeq(a, b) ==
  \/ a.char_pos > b.char_pos
  \/ (a.char_pos = b.char_pos /\ a.line_num >= b.line_num)

\* The sort key (char_pos, line_num) of one match against another.
KeyLeq(a, b) ==
  \/ a.char_pos < b.char_pos
  \/ (a.char_pos = b.char_pos /\ a.line_num <= b.line_num)

RECURSIVE SortMatches(_)
\* matches.sort(key=lambda m: (m.char_pos, m.line_num)): a stable sort
SortMatches(ms) ==
  LET n == Len(ms)
      front == SortMatches(SubSeq(ms, 1, n - 1))
      m == ms[n]
      k == Cardinality({i \in 1..Len(front) : KeyLeq(front[i], m)})
  IN IF n <= 1 THEN ms
     ELSE SubSeq(front, 1, k) \o <<m>> \o SubSeq(front, k + 1, Len(front))

\* Lines 515-521: of the sorted matches, the first at each char_pos.
DedupeMatches(sorted) ==
  LET keep == {i \in 1..Len(sorted) :
                 \A j \in 1..(i - 1) : sorted[j].char_pos # sorted[i].char_pos}
      idx == SortedSeq(keep)
  IN [k \in 1..Len(idx) |-> sorted[idx[k]]]

\* Lines 513-523 of find_sections.
SortAndDedupe(ms) == DedupeMatches(SortMatches(ms))

U_UNKNOWN_01 == <<"u","n","k","n","o","w","n","_","0","1">>

U_UNKNOWN_00 == <<"u","n","k","n","o","w","n","_","0","0">>

PREAMBLE_MIN_LEN == 100

\* The mutant of SectionEnd: every section ends where the document ends.
SectionEndAtTotal(matches, i, total_len) == total_len

\* Lines 573-576: where the i-th match's section ends.
SectionEnd(matches, i, total_len) ==
  IF i + 1 <= Len(matches) THEN matches[i + 1].char_pos ELSE total_len

\* The mutant of UnknownSection: the content is stripped, as a heading section's is.
UnknownSectionStripped(markdown) ==
  [ id |-> U_UNKNOWN_01, title |-> <<"U","n","k","n","o","w","n"," ","S","e","c","t","i","o","n">>,
    content |-> Strip(markdown), char_start |-> 0, char_end |-> Len(markdown),
    warnings |-> <<"No section headings detected in document">> ]

\* Lines 538-549: the single section of a document without headings.
UnknownSection(markdown) ==
  [ id |-> U_UNKNOWN_01, title |-> <<"U","n","k","n","o","w","n"," ","S","e","c","t","i","o","n">>, content |-> markdown,
    char_start |-> 0, char_end |-> Len(markdown),
    warnings |-> <<"No section headings detected in document">> ]

\* A preamble whose length is taken before it is stripped.
PreambleUnstripped(markdown, matches) ==
  LET first_match == matches[1]
      before == Slice(markdown, 0, first_match.char_pos)
  IN IF first_match.char_pos > 0 /\ Len(before) > PREAMBLE_MIN_LEN
     THEN << [ id |-> U_UNKNOWN_00, title |-> <<"P","r","e","a","m","b","l","e">>, content |-> Strip(before),
               char_start |-> 0, char_end |-> first_match.char_pos,
               warnings |-> <<"Content before first detected section">> ] >>
     ELSE <<>>

\* Lines 554-568: the preamble section, if the text before the first match is substantial.
PreambleSections(markdown, matches) ==
  LET first_match == matches[1]
      preamble == Strip(Slice(markdown, 0, first_match.char_pos))
  IN IF first_match.char_pos > 0 /\ preamble # <<>> /\ Len(preamble) > PREAMBLE_MIN_LEN
     THEN << [ id |-> U_UNKNOWN_00, title |-> <<"P","r","e","a","m","b","l","e">>, content |-> preamble,
               char_start |-> 0, char_end |-> first_match.char_pos,
               warnings |-> <<"Content before first detected section">> ] >>
     ELSE <<>>

\* Lines 571-591: the section of the i-th match.
MatchSection(markdown, form_type, matches, i) ==
  LET match == matches[i]
      char_end == SectionEnd(matches, i, Len(markdown))
  IN [ id |-> section_id(form_type, match.part, match.item, match.title),
       title |-> IF match.title # <<>> THEN match.title
                 ELSE <<"I","t","e","m"," ">> \o match.item,
       content |-> Strip(Slice(markdown, match.char_pos, char_end)),
       char_start |-> match.char_pos, char_end |-> char_end,
       warnings |-> <<>> ]

\* Lines 551-591: the sections before the duplicate-ID pass.
BuildSections(markdown, form_type, matches) ==
  PreambleSections(markdown, matches)
  \o [i \in 1..Len(matches) |-> MatchSection(markdown, form_type, matches, i)]

\* A duplicate-ID pass that does not count: every later occurrence gets '_1'.
SuffixAlwaysOne(secs, seen_ids, i) ==
  [j \in 1..Len(secs) |->
     IF \E h \in 1..(j - 1) : secs[h].id = secs[j].id
     THEN [secs[j] EXCEPT !.id = @ \o <<"_", "1">>,
                          !.warnings = Append(@, "Duplicate section ID detected, suffix added")]
     ELSE secs[j]]

RECURSIVE UniqueIds(_, _, _)
\* Lines 593-601: the duplicate-ID pass over sections from index i on, with the
\* dictionary seen_ids (a function from IDs to counts).
UniqueIds(sections, seen_ids, i) ==
  LET section == sections[i]
      n == seen_ids[section.id] + 1
      renamed == [section EXCEPT
                    !.id = @ \o <<"_">> \o DecStr(n),
                    !.warnings = Append(@, "Duplicate section ID detected, suffix added")]
  IN IF i > Len(sections) THEN sections
     ELSE IF section.id \in DOMAIN seen_ids
     THEN UniqueIds([sections EXCEPT ![i] = renamed],
                    [seen_ids EXCEPT ![section.id] = n], i + 1)
     ELSE UniqueIds(sections, (section.id :> 0) @@ seen_ids, i + 1)

\* An empty dictionary.
EmptyDict == [x \in {} |-> 0]

\* sectionize, given the matches find_sections returned (lines 538-603).
SectionsOf(markdown, form_type, matches) ==
  IF matches = <<>> THEN <<UnknownSection(markdown)>>
  ELSE UniqueIds(BuildSections(markdown, form_type, matches), EmptyDict, 1)

(***************************************************************************)
(* The documents the sectionizer is run on: lines of a small bank          *)
(***************************************************************************)
\* How many lines a document has at most.
MaxLines == 3

\* n copies of the character c
Rep(c, n) == [i \in 1..n |-> c]

T_ITEM_1_BIZ == <<"I","t","e","m"," ","1","."," ","B","i","z">>

LineBank ==
  << <<>>,                                                   \* a blank line
     <<"x","x","x">>,                                        \* prose
     Rep("x", PREAMBLE_MIN_LEN + 1),                         \* substantial prose
     <<"T","a","b","l","e"," ","o","f"," ","C","o","n","t","e","n","t","s">>,
     <<"P","A","R","T"," ","I","I">>,
     T_ITEM_1_BIZ,
     T_ITEM_1_BIZ \o <<" ","1">>,                            \* "Item 1. Biz 1"
     <<"I","t","e","m"," ","1",".","0","1"," ","B","i","z">>,
     W_SIGNATURES,
     <<"|"," ","I","t","e","m"," ","2","."," ","|"," ","B","i","z"," ","|"," ","3"," ","|">>,
     Rep("x", INLINE_MIN_START) \o <<".","P","a","r","t"," ","I","."," ","x">>
        \o <<"I","t","e","m"," ","2","."," ","B","i","z">>,  \* flattened headings
     <<"*","*","R","I","S","K","*","*">>,
     <<"|"," ","T","a","b","l","e"," ","o","f"," ","C","o","n","t","e","n","t","s"," ","|">>,
     <<"|"," ","P","a","r","t"," ","I","V"," ","|"," ","x"," ","|">>,
     Rep("x", PREAMBLE_MIN_LEN) >>                           \* prose at the limit

\* The scan results of every line of the bank, computed once.
LineInfo == SubSeq([i \in 1..Len(LineBank) |-> LineScan(LineBank[i])], 1, Len(LineBank))

\* A document is a non-empty sequence of lines, given by their bank indices.
Docs == UNION {[1..n -> 1..Len(LineBank)] : n \in 1..MaxLines}

F_S1 == <<"S","-","1">>

AMENDED == <<"/","A">>

\* The form types the sectionizer is run with.
Forms == {F_10K, F_10Q, F_8K, F_S1, F_8K \o AMENDED}

\* "\n".join(lines): the markdown text of a document
Markdown(doc) == Join([i \in 1..Len(doc) |-> LineBank[doc[i]]], <<NL>>)

RECURSIVE CharOffset(_, _)
\* char_offsets[line_num] (lines 207-211), line_num 0-based
CharOffset(doc, line_num) ==
  IF line_num = 0 THEN 0
  ELSE CharOffset(doc, line_num - 1) + Len(LineBank[doc[line_num]]) + 1

RECURSIVE ScanFrom(_, _, _, _)
\* The loop of find_sections from 0-based line line_num on.
ScanFrom(doc, form_type, st, line_num) ==
  IF line_num >= Len(doc) THEN st
  ELSE ScanFrom(doc, form_type,
                ScanLine(st, LineInfo[doc[line_num + 1]], line_num,
                         CharOffset(doc, line_num), form_type),
                line_num + 1)

\* find_sections(markdown, form_type)
find_sections(doc, form_type) ==
  SortAndDedupe(ScanFrom(doc, form_type, ScanInit, 0).matches)

\* sectionize(markdown, form_type)
sectionize(doc, form_type) ==
  SectionsOf(Markdown(doc), form_type, find_sections(doc, form_type))

(***************************************************************************)
(* The state of the program.  Each part of the pipeline is checked on its  *)
(* own, under a specification in which the other parts are idle.           *)
(***************************************************************************)
VARIABLES
  doc,           \* the lines of the markdown, as indices into LineBank
  form_type,     \* the form type sectionize() was called with
  pc,            \* where sectionize() is: "scan", "sectionize", "ids", "done"
  line_num,      \* the number of lines find_sections() has scanned
  toc_armed, in_toc_table, current_part, seen_titles,   \* locals of find_sections()
  matches,       \* the matches of find_sections()
  sections,      \* the sections of sectionize()
  returned       \* what the earlier calls of sectionize() on this input returned

VARIABLES
  content,        \* the section content chunk_section() was called with
  tiktoken,       \* TRUE when the tiktoken module could be imported
  budgets,        \* the token budgets chunk_section() was called with
  min_tokens, max_tokens,   \* the token budgets of chunk_section()
  all_boundaries, \* the sorted boundaries of chunk_section()
  chunk_start,          \* where the next chunk starts
  chunk_index,    \* the index of the next chunk
  chunks,         \* the chunks of chunk_section()
  chunk_pc        \* where chunk_section() is: "call", "loop", "done"

VARIABLES
  fed,            \* the parser events clean_html() has handled, in order
  out,            \* parser.out: what the handlers appended, and for which event
  skip_depth,     \* parser._skip_depth
  cleaned,        \* the result of clean_html()
  clean_pc        \* where clean_html() is: "feed", "done"

VARIABLES
  ix_html,        \* the markup strip_ixbrl() was called with
  ix_result,      \* what strip_ixbrl() returned
  ix_pc           \* where strip_ixbrl() is: "call", "done"

VARIABLES
  filing,          \* the filing build_pack() is run on, as an index into FilingBank
  has_tiktoken,    \* TRUE when the tiktoken module could be imported
  clock,           \* the wall-clock time, in hours
  disk,            \* the files of the pack directory: path -> bytes
  pack_dir,        \* TRUE when the pack directory exists
  opts,            \* with_chunks, with_xbrl and force of the running build_pack()
  build_pc,        \* where build_pack() is
  section_i,       \* the number of section files the running build has written
  build_warnings,  \* warnings of the running build_pack()
  build_artifacts, \* artifacts of the running build_pack()
  manifest,        \* the manifest the running build_pack() created
  transformed,     \* the in-memory stages the running build has completed
  wrote,           \* the paths the running build has written
  written          \* the manifests written so far: arguments, time and bytes

VARIABLES
  norm_md,         \* the text handed to a normalizer
  norm_out,        \* what the normalizer returned
  norm_pc          \* which normalizer has run

VARIABLES
  retries_arg,     \* max_retries as given to SECClient()
  client_retries,  \* self._max_retries
  attempt,         \* attempt of _fetch_with_retry()
  backoff,         \* backoff of _fetch_with_retry(), in seconds
  acquired,        \* how often the rate limiter's acquire() has returned
  tried,           \* what _fetch_sync() did, attempt by attempt
  slept,           \* the seconds slept, retry by retry
  fetch_error,     \* what _fetch_with_retry() raised
  fetch_pc         \* where the client is

sectVars == <<doc, form_type, pc, line_num, toc_armed, in_toc_table,
              current_part, seen_titles, matches, sections, returned>>

chunkVars == <<content, tiktoken, budgets, min_tokens, max_tokens, all_boundaries,
               chunk_start, chunk_index, chunks, chunk_pc>>

cleanVars == <<fed, out, skip_depth, cleaned, clean_pc>>

ixVars == <<ix_html, ix_result, ix_pc>>

packVars == <<filing, has_tiktoken, clock, disk, pack_dir, opts, build_pc, section_i,
              build_warnings, build_artifacts, manifest, transformed, wrote, written>>

normVars == <<norm_md, norm_out, norm_pc>>

fetchVars == <<retries_arg, client_retries, attempt, backoff, acquired, tried, slept,
               fetch_error, fetch_pc>>

vars == <<sectVars, chunkVars, cleanVars, ixVars, packVars, normVars, fetchVars>>

\* The sectionizer is not running.
SectIdle ==
  /\ doc = <<>>
  /\ form_type = <<>>
  /\ pc = "idle"
  /\ line_num = 0
  /\ toc_armed = FALSE
  /\ in_toc_table = FALSE
  /\ current_part = <<>>
  /\ seen_titles = {}
  /\ matches = <<>>
  /\ sections = <<>>
  /\ returned = <<>>

\* The chunker is not running.
ChunkIdle ==
  /\ content = <<>>
  /\ tiktoken = FALSE
  /\ budgets = [min_tokens |-> 0, max_tokens |-> 0]
  /\ min_tokens = 0
  /\ max_tokens = 0
  /\ all_boundaries = <<>>
  /\ chunk_start = 0
  /\ chunk_index = 0
  /\ chunks = <<>>
  /\ chunk_pc = "idle"

\* The sanitizer is not running.
CleanIdle ==
  /\ fed = <<>>
  /\ out = <<>>
  /\ skip_depth = 0
  /\ cleaned = <<>>
  /\ clean_pc = "idle"

\* strip_ixbrl() is not running.
IxIdle ==
  /\ ix_html = <<>>
  /\ ix_result = <<>>
  /\ ix_pc = "idle"

\* The options of build_pack() when none was given.
NoOpts == [with_chunks |-> FALSE, with_xbrl |-> FALSE, force |-> FALSE]

\* build_pack() is not running and has not run.
PackIdle ==
  /\ filing = 0
  /\ has_tiktoken = FALSE
  /\ clock = 0
  /\ disk = <<>>
  /\ pack_dir = FALSE
  /\ opts = NoOpts
  /\ build_pc = "idle"
  /\ section_i = 0
  /\ build_warnings = <<>>
  /\ build_artifacts = <<>>
  /\ manifest = <<>>
  /\ transformed = {}
  /\ wrote = {}
  /\ written = <<>>

\* No normalizer is running.
NormIdle ==
  /\ norm_md = <<>>
  /\ norm_out = <<>>
  /\ norm_pc = "idle"

\* There is no SECClient.
FetchIdle ==
  /\ retries_arg = 0
  /\ client_retries = 0
  /\ attempt = 0
  /\ backoff = 0
  /\ acquired = 0
  /\ tried = <<>>
  /\ slept = <<>>
  /\ fetch_error = "none"
  /\ fetch_pc = "idle"

\* What each part leaves alone.
notSect == <<chunkVars, cleanVars, ixVars, packVars, normVars, fetchVars>>
notChunk == <<sectVars, cleanVars, ixVars, packVars, normVars, fetchVars>>
notClean == <<sectVars, chunkVars, ixVars, packVars, normVars, fetchVars>>
notIx == <<sectVars, chunkVars, cleanVars, packVars, normVars, fetchVars>>
notPack == <<sectVars, chunkVars, cleanVars, ixVars, normVars, fetchVars>>
notNorm == <<sectVars, chunkVars, cleanVars, ixVars, packVars, fetchVars>>
notFetch == <<sectVars, chunkVars, cleanVars, ixVars, packVars, normVars>>

(***************************************************************************)
(* The sectionizer as a state machine: sectionize() calls find_sections(), *)
(* which scans the lines one by one, sorts and dedupes its matches, and    *)
(* sectionize() builds the sections and makes their IDs unique.            *)
(***************************************************************************)
\* The locals of find_sections() as one scan state.
ScanState ==
  [ toc_armed |-> toc_armed, in_toc_table |-> in_toc_table,
    current_part |-> current_part, seen_titles |-> seen_titles,
    matches |-> matches ]

SectInit ==
  /\ doc \in Docs
  /\ form_type \in Forms
  /\ pc = "scan"
  /\ line_num = 0
  /\ toc_armed = ScanInit.toc_armed
  /\ in_toc_table = ScanInit.in_toc_table
  /\ current_part = ScanInit.current_part
  /\ seen_titles = ScanInit.seen_titles
  /\ matches = ScanInit.matches
  /\ sections = <<>>
  /\ returned = <<>>
  /\ ChunkIdle
  /\ CleanIdle
  /\ IxIdle
  /\ PackIdle
  /\ NormIdle
  /\ FetchIdle

\* The locals of find_sections() take the values of the scan state st.
ScanTo(st) ==
  /\ toc_armed' = st.toc_armed
  /\ in_toc_table' = st.in_toc_table
  /\ current_part' = st.current_part
  /\ seen_titles' = st.seen_titles
  /\ matches' = st.matches

\* One iteration of the loop of find_sections (lines 319-511).
ScanNextLine ==
  /\ pc = "scan"
  /\ line_num < Len(doc)
  /\ ScanTo(ScanLine(ScanState, LineInfo[doc[line_num + 1]], line_num,
                     CharOffset(doc, line_num), form_type))
  /\ line_num' = line_num + 1
  /\ UNCHANGED <<doc, form_type, pc, sections>>
  /\ UNCHANGED <<returned, notSect>>

\* The loop is over: find_sections sorts, dedupes and returns (lines 513-523).
SortDedupeReturn ==
  /\ pc = "scan"
  /\ line_num = Len(doc)
  /\ matches' = SortAndDedupe(matches)
  /\ pc' = "sectionize"
  /\ UNCHANGED <<doc, form_type, line_num, toc_armed, in_toc_table,
                 current_part, seen_titles, sections>>
  /\ UNCHANGED <<returned, notSect>>

\* No matches: sectionize returns the single unknown section (lines 538-549).
ReturnUnknown ==
  /\ pc = "sectionize"
  /\ matches = <<>>
  /\ sections' = <<UnknownSection(Markdown(doc))>>
  /\ pc' = "done"
  /\ UNCHANGED <<doc, form_type, line_num, toc_armed, in_toc_table,
                 current_part, seen_titles, matches>>
  /\ UNCHANGED <<returned, notSect>>

\* The preamble and one section per match (lines 551-591).
MakeSections ==
  /\ pc = "sectionize"
  /\ matches # <<>>
  /\ sections' = BuildSections(Markdown(doc), form_type, matches)
  /\ pc' = "ids"
  /\ UNCHANGED <<doc, form_type, line_num, toc_armed, in_toc_table,
                 current_part, seen_titles, matches>>
  /\ UNCHANGED <<returned, notSect>>

\* The duplicate-ID pass, and sectionize returns (lines 593-603).
MakeIdsUnique ==
  /\ pc = "ids"
  /\ sections' = UniqueIds(sections, EmptyDict, 1)
  /\ pc' = "done"
  /\ UNCHANGED <<doc, form_type, line_num, toc_armed, in_toc_table,
                 current_part, seen_titles, matches>>
  /\ UNCHANGED <<returned, notSect>>

\* How many times sectionize() is called on the same input.
MaxCalls == 2

\* A state that keeps the locals of the call before.
EntryStateKept(st) == st

\* The locals of find_sections() at its entry (lines 203-222, 272): they are
\* created anew by every call.
EntryState(st) == ScanInit

\* sectionize() is called again on the same markdown and form type.
CallAgain ==
  /\ pc = "done"
  /\ Len(returned) + 1 < MaxCalls
  /\ returned' = Append(returned, sections)
  /\ ScanTo(EntryState(ScanState))
  /\ line_num' = 0
  /\ sections' = <<>>
  /\ pc' = "scan"
  /\ UNCHANGED <<doc, form_type>>
  /\ UNCHANGED notSect

SectNext ==
  \/ CallAgain
  \/ ScanNextLine
  \/ SortDedupeReturn
  \/ ReturnUnknown
  \/ MakeSections
  \/ MakeIdsUnique

\* sectionize() on every document of the bank and every form type.
SpecSect == SectInit /\ [][SectNext]_vars

(***************************************************************************)
(* The sectionizer's properties                                            *)
(***************************************************************************)
\* sectionize() has returned.
Returned == pc = "done"

\* The IDs of a section list, in order.
Ids(secs) == [i \in 1..Len(secs) |-> secs[i].id]

\* C1: the sections sectionize() returns partition the document from the first
\* section's start on: each section ends where the next starts, and the last
\* ends at the length of the document.
C1_Partition ==
  Returned =>
    /\ \A i \in 1..(Len(sections) - 1) :
         sections[i].char_end = sections[i + 1].char_start
    /\ sections # <<>>
    /\ sections[Len(sections)].char_end = Len(Markdown(doc))

\* A preamble section followed by at least two heading sections was returned.
C1_Witness ==
  /\ Returned
  /\ Len(sections) >= 3
  /\ sections[1].id = U_UNKNOWN_00
  /\ sections[1].char_end > 0

\* C2: after the duplicate-ID pass the section IDs sectionize() returns are
\* pairwise distinct.
C2_DistinctIds ==
  Returned =>
    \A i, j \in 1..Len(sections) : i # j => sections[i].id # sections[j].id

\* C6: sectionize() returns at least one section, and when find_sections()
\* found no match it returns exactly the one section 'unknown_01' that spans
\* the whole document, holds it as content and carries a warning.
C6_UnknownFallback ==
  Returned =>
    /\ Len(sections) >= 1
    /\ matches = <<>> =>
         /\ Len(sections) = 1
         /\ sections[1].id = U_UNKNOWN_01
         /\ sections[1].char_start = 0
         /\ sections[1].char_end = Len(Markdown(doc))
         /\ sections[1].content = Markdown(doc)
         /\ sections[1].warnings # <<>>

\* sectionize() returned the fallback section for a document that ends in
\* whitespace, and for the empty document.
C6_Witness ==
  /\ Returned
  /\ matches = <<>>
  /\ sections[1].id = U_UNKNOWN_01
  /\ \/ Markdown(doc) = <<>>
     \/ Markdown(doc)[Len(Markdown(doc))] = NL

\* The position, part, item and title of every match.
Headings(ms) ==
  [i \in 1..Len(ms) |-> << ms[i].char_pos, ms[i].line_num, ms[i].part,
                           ms[i].item, ms[i].title >>]

\* C9: for a form F of 10-K, 10-Q and 8-K, the amended form F/A gives every
\* (part, item, title) the section ID F gives it, selects the heading grammar
\* of F, and find_sections() and sectionize() yield with F/A the matches and
\* the section IDs they yield with F.
C9_AmendedSameIds ==
  /\ \A F \in {F_10K, F_10Q, F_8K} : \A i \in 1..Len(matches) :
       section_id(F \o AMENDED, matches[i].part, matches[i].item, matches[i].title)
         = section_id(F, matches[i].part, matches[i].item, matches[i].title)
  /\ (Returned /\ form_type \in {F_10K, F_10Q, F_8K}) =>
       /\ FormUpper(form_type \o AMENDED) = FormUpper(form_type)
       /\ IsGeneralForm(form_type \o AMENDED) = IsGeneralForm(form_type)
       /\ Headings(find_sections(doc, form_type \o AMENDED)) = Headings(matches)
       /\ Ids(sectionize(doc, form_type \o AMENDED)) = Ids(sections)

\* A 10-K with a heading under a part and with a title was sectioned.
C9_Witness ==
  /\ Returned
  /\ form_type = F_10K
  /\ Len(matches) >= 2
  /\ \E i \in 1..Len(matches) : matches[i].part # <<>> /\ matches[i].title # <<>>

\* The lines find_sections() has scanned, and what LineScan reads off the
\* k-th of them.
Scanned == 1..line_num

InfoAt(k) == LineInfo[doc[k]]

\* The TOC-suppression state after the k-th line as the contract gives it:
\* a line containing "table of contents" arms the scanner, a table row met
\* while armed starts the suppressed run, and a blank or non-table line ends
\* the run.
RECURSIVE TocContract(_, _)
TocContract(d, k) ==
  IF k = 0 THEN "Normal"
  ELSE IF LineInfo[d[k]].blank
    THEN (IF TocContract(d, k - 1) = "InTable" THEN "Normal" ELSE TocContract(d, k - 1))
  ELSE IF LineInfo[d[k]].is_table
    THEN (IF LineInfo[d[k]].toc \/ TocContract(d, k - 1) # "Normal"
          THEN "InTable" ELSE "Normal")
  ELSE IF LineInfo[d[k]].toc THEN "Armed"
  ELSE IF TocContract(d, k - 1) = "InTable" THEN "Normal"
  ELSE TocContract(d, k - 1)

\* C15: once a line containing "table of contents" has been seen, no row of
\* the first run of table rows that follows it produces a SectionMatch.
C15_TocRunSuppressed ==
  (pc = "scan") =>
    \A k \in Scanned :
      (InfoAt(k).is_table /\ TocContract(doc, k) = "InTable") =>
        \A i \in 1..Len(matches) : matches[i].line_num # k - 1

\* C20: a non-blank line containing "table of contents" leaves the scanner
\* armed, whatever its state before the line.
C20_TocLineArms ==
  (pc = "scan" /\ line_num >= 1
     /\ ~InfoAt(line_num).blank /\ InfoAt(line_num).toc) => toc_armed

\* C16: whatever the form type, a non-table line that consists of one of the
\* fixed vocabulary titles produces a SectionMatch at the start of the line.
C16_TitledRecognized ==
  (pc = "scan") =>
    \A k \in Scanned :
      (~InfoAt(k).is_table /\ TITLED_SECTION_PATTERN(Strip(LineBank[doc[k]])).ok) =>
        \E i \in 1..Len(matches) :
          /\ matches[i].line_num = k - 1
          /\ matches[i].char_pos = CharOffset(doc, k - 1)

\* The inline PART markers of a line of a 10-K or 10-Q, in order.
InlineParts(info) == SelectSeq(info.inline10k, LAMBDA e : e.kind = "part")

\* Whether a line of a 10-K or 10-Q holds a Part marker: a PART heading or
\* cell, an Item heading that names its Part, or an inline PART.
HasPartMarker(info) ==
  \/ info.part # <<>>
  \/ (info.item10k.ok /\ info.item10k.part # <<>>)
  \/ InlineParts(info) # <<>>

\* toc_armed and in_toc_table after the k-th line of the scan, and whether the
\* scan skipped that line (lines 322-341).
RECURSIVE TocAfter(_, _)
TocAfter(d, k) ==
  IF k = 0
  THEN [ toc_armed |-> ScanInit.toc_armed,
         in_toc_table |-> ScanInit.in_toc_table, skip |-> FALSE ]
  ELSE TocStep(TocAfter(d, k - 1), LineInfo[d[k]])

\* Whether the k-th line is a row of a table of contents the scan suppresses.
Suppressed(d, k) == LineInfo[d[k]].is_table /\ TocAfter(d, k).skip

\* The Part seen most recently in the first k lines, outside the suppressed
\* tables of contents; <<>> when none was seen.
RECURSIVE LastPart(_, _)
LastPart(d, k) ==
  IF k = 0 THEN <<>>
  ELSE IF Suppressed(d, k) \/ ~HasPartMarker(LineInfo[d[k]]) THEN LastPart(d, k - 1)
  ELSE IF InlineParts(LineInfo[d[k]]) # <<>>
    THEN InlineParts(LineInfo[d[k]])[Len(InlineParts(LineInfo[d[k]]))].value
  ELSE IF LineInfo[d[k]].item10k.ok /\ LineInfo[d[k]].item10k.part # <<>>
    THEN Upper(LineInfo[d[k]].item10k.part)
  ELSE LineInfo[d[k]].part

\* Whether the scan is of a 10-K or a 10-Q.
Scans10K == FormUpper(form_type) \in {F_10K, F_10Q}

\* A line or table row that holds a PART heading and no Item or titled heading.
PartOnly(info) ==
  /\ info.part # <<>>
  /\ ~info.item10k.ok
  /\ info.inline10k = <<>>
  /\ ~info.titled.ok

\* C21: in a 10-K or 10-Q, a PART line or cell outside a suppressed table of
\* contents produces no SectionMatch and sets current_part, and a match of a
\* line without a Part marker carries the Part seen most recently before it.
C21_PartCarried ==
  (pc = "scan" /\ Scans10K) =>
    /\ \A k \in Scanned :
         (PartOnly(InfoAt(k)) /\ ~Suppressed(doc, k)) =>
           /\ \A i \in 1..Len(matches) : matches[i].line_num # k - 1
           /\ k = line_num => current_part = InfoAt(k).part
    /\ \A i \in 1..Len(matches) :
         ~HasPartMarker(InfoAt(matches[i].line_num + 1)) =>
           matches[i].part = LastPart(doc, matches[i].line_num)

\* An Item heading two lines after a PART heading carries its Part.
C21_Witness ==
  /\ pc = "scan"
  /\ Scans10K
  /\ line_num = 3
  /\ PartOnly(InfoAt(1))
  /\ ~HasPartMarker(InfoAt(2))
  /\ ~HasPartMarker(InfoAt(3))
  /\ \E i \in 1..Len(matches) :
       /\ matches[i].line_num = 2
       /\ matches[i].item # W_OTHER
       /\ matches[i].part = InfoAt(1).part

\* The matches of the scan of the whole document, before they are sorted.
Unsorted == ScanFrom(doc, form_type, ScanInit, 0).matches

\* C22: the matches find_sections() returns are strictly increasing in
\* char_pos, every char_pos lies in the markdown, and every position of a
\* match of the scan is kept once, with a match of the scan at it.
C22_StrictlyIncreasing ==
  (pc = "sectionize") =>
    /\ \A i \in 1..(Len(matches) - 1) : matches[i].char_pos < matches[i + 1].char_pos
    /\ \A i \in 1..Len(matches) :
         /\ 0 <= matches[i].char_pos
         /\ matches[i].char_pos < Len(Markdown(doc))
         /\ \E j \in 1..Len(Unsorted) : Unsorted[j] = matches[i]
    /\ {Unsorted[j].char_pos : j \in 1..Len(Unsorted)}
         = {matches[i].char_pos : i \in 1..Len(matches)}

\* find_sections() returned three matches, the first of them after the
\* start of the markdown.
C22_Witness ==
  /\ pc = "sectionize"
  /\ Len(matches) >= 3
  /\ matches[1].char_pos > 0

\* The text before the first match.
Preceding == Slice(Markdown(doc), 0, matches[1].char_pos)

\* sectionize() returned a leading section 'unknown_00' titled 'Preamble' that
\* spans [0, first_match.char_pos) and carries one warning, before one
\* section per match.
PreambleEmitted ==
  /\ Len(sections) = Len(matches) + 1
  /\ sections[1].id = U_UNKNOWN_00
  /\ sections[1].title = <<"P","r","e","a","m","b","l","e">>
  /\ sections[1].char_start = 0
  /\ sections[1].char_end = matches[1].char_pos
  /\ Len(sections[1].warnings) = 1

\* sectionize() returned one section per match and nothing before them.
NoPreamble ==
  /\ Len(sections) = Len(matches)
  /\ sections[1].char_start = matches[1].char_pos

\* C23 as stated: the preamble section is emitted exactly when the first
\* match starts after position 0 and the text before it has more than 100
\* characters; otherwise the first section starts at the first match.
C23_PreambleWhenLong ==
  (Returned /\ matches # <<>>) =>
    IF matches[1].char_pos > 0 /\ Len(Preceding) > PREAMBLE_MIN_LEN
    THEN PreambleEmitted ELSE NoPreamble

\* C23, amended: the preamble section is emitted exactly when the first match
\* starts after position 0 and the text before it, stripped of the
\* whitespace around it, has more than 100 characters; otherwise the first
\* section starts at the first match.
C23_PreambleWhenSubstantial ==
  (Returned /\ matches # <<>>) =>
    IF matches[1].char_pos > 0 /\ Len(Strip(Preceding)) > PREAMBLE_MIN_LEN
    THEN PreambleEmitted ELSE NoPreamble

\* sectionize() returned a preamble for a first match after 101 characters
\* of prose.
C23_Witness ==
  /\ Returned
  /\ matches # <<>>
  /\ Len(Strip(Preceding)) = PREAMBLE_MIN_LEN + 1
  /\ PreambleEmitted

\* How many sections before the i-th were given the ID the i-th was given.
Earlier(secs, i) == Cardinality({j \in 1..(i - 1) : secs[j].id = secs[i].id})

\* C24: the duplicate-ID pass drops no section: there is one section per
\* match, and one more when a preamble was emitted; a section whose generated
\* ID no earlier section was given keeps it, with its warnings; the k-th later
\* section with that generated ID gets it with the suffix '_k', and the
\* warning 'Duplicate section ID detected, suffix added' after its warnings.
C24_DuplicatesSuffixed ==
  [][(pc = "ids") =>
       /\ Len(sections') = Len(sections)
       /\ Len(sections') = Len(matches) + (IF sections'[1].id = U_UNKNOWN_00 THEN 1 ELSE 0)
       /\ \A i \in 1..Len(sections) :
            LET k == Earlier(sections, i)
            IN IF k = 0
               THEN sections'[i] = sections[i]
               ELSE /\ sections'[i].id = sections[i].id \o <<"_">> \o DecStr(k)
                    /\ sections'[i].warnings
                         = Append(sections[i].warnings,
                                  "Duplicate section ID detected, suffix added")
                    /\ sections'[i].title = sections[i].title
                    /\ sections'[i].content = sections[i].content
                    /\ sections'[i].char_start = sections[i].char_start
                    /\ sections'[i].char_end = sections[i].char_end]_vars

\* sectionize() returned three sections whose generated IDs were the same: the
\* second has the suffix '_1' and the third the suffix '_2'.
C24_Witness ==
  /\ Returned
  /\ Len(sections) = 3
  /\ sections[2].id = sections[1].id \o <<"_", "1">>
  /\ sections[3].id = sections[1].id \o <<"_", "2">>
  /\ Len(sections[3].warnings) = 1

\* C18: two runs of sectionize() on the same markdown and form type return
\* the same Section list: ids, titles, contents, char ranges and warnings.
C18_SameSections ==
  (Returned /\ returned # <<>>) =>
    \A i \in 1..Len(returned) : returned[i] = sections

\* The second call returned three sections or more, one of them with a warning.
C18_Witness ==
  /\ Returned
  /\ returned # <<>>
  /\ Len(sections) >= 3
  /\ \E i \in 1..Len(sections) : sections[i].warnings # <<>>

(***************************************************************************)
(* Token counting (parse/tokenize.py)                                      *)
(***************************************************************************)
CHARS_PER_TOKEN == 4

\* estimate_tokens(text): len(text) // 4
estimate_tokens(text) == Len(text) \div CHARS_PER_TOKEN

\* A character that the encoder splits over two tokens (one outside the
\* vocabulary, encoded byte by byte), its two halves, and the character
\* that decoding writes for a half left alone (U+FFFD).
WIDE == "~w"
WIDE_1 == "~w1"
WIDE_2 == "~w2"
REPLACEMENT == "~r"

\* get_encoder().encode(text): a token is a sequence of bytes.  Two letters
\* "a" merge into one token, a wide character takes two tokens, and any
\* other character is a token of its own.
RECURSIVE Encode(_)
Encode(text) ==
  IF text = <<>> THEN <<>>
  ELSE IF text[1] = WIDE
    THEN << <<WIDE_1>>, <<WIDE_2>> >> \o Encode(Tail(text))
  ELSE IF Len(text) >= 2 /\ text[1] = "a" /\ text[2] = "a"
    THEN << <<"a", "a">> >> \o Encode(SubSeq(text, 3, Len(text)))
  ELSE << <<text[1]>> >> \o Encode(Tail(text))

\* bytes.decode("utf-8", errors="replace")
RECURSIVE DecodeBytes(_)
DecodeBytes(bytes) ==
  IF bytes = <<>> THEN <<>>
  ELSE IF bytes[1] = WIDE_1 /\ Len(bytes) >= 2 /\ bytes[2] = WIDE_2
    THEN <<WIDE>> \o DecodeBytes(SubSeq(bytes, 3, Len(bytes)))
  ELSE IF bytes[1] \in {WIDE_1, WIDE_2}
    THEN <<REPLACEMENT>> \o DecodeBytes(Tail(bytes))
  ELSE <<bytes[1]>> \o DecodeBytes(Tail(bytes))

\* get_encoder().decode(tokens)
Decode(tokens) == DecodeBytes(Join(tokens, <<>>))

\* count_tokens(text)
count_tokens(text) ==
  IF ~tiktoken THEN estimate_tokens(text) ELSE Len(Encode(text))

\* decode(tokens[:max]) when there are more than max tokens.
TruncateTokens(text, tokens, max) ==
  IF Len(tokens) <= max THEN text ELSE Decode(SubSeq(tokens, 1, max))

\* truncate_to_tokens(text, max_tokens)
truncate_to_tokens(text, max) ==
  IF ~tiktoken THEN Slice(text, 0, max * CHARS_PER_TOKEN)
  ELSE TruncateTokens(text, Encode(text), max)

(***************************************************************************)
(* The chunker (pack/chunks.py)                                            *)
(***************************************************************************)
SentenceEnd == {".", "!", "?"}

\* The ends of the matches of \n\n+ : the last newline of a run of two or more.
find_paragraph_boundaries(text) ==
  {j \in 2..Len(text) :
     /\ text[j] = NL /\ text[j - 1] = NL
     /\ (j = Len(text) \/ text[j + 1] # NL)}

\* The ends of the matches of [.!?]\s+ : the last character of a run of
\* whitespace that follows a sentence-ending character.
find_sentence_boundaries(text) ==
  {j \in 2..Len(text) :
     /\ text[j] \in SpaceSet
     /\ (j = Len(text) \/ text[j + 1] \notin SpaceSet)
     /\ \E k \in 1..(j - 1) :
          /\ text[k] \in SentenceEnd
          /\ \A m \in (k + 1)..j : text[m] \in SpaceSet}

\* sorted(set(paragraph + sentence + [len(content)]))
AllBoundaries(text) ==
  SortedSeq(find_paragraph_boundaries(text) \cup find_sentence_boundaries(text)
            \cup {Len(text)})

\* Budgets taken as they are given.
ClampBudgetNone(tokens) == tokens

\* A max_tokens taken as it is given.
ClampMaxNone(max) == max

\* max(1, int(tokens))
ClampBudget(tokens) == IF tokens < 1 THEN 1 ELSE tokens

\* The budgets after lines 102-105.
ClampMax(max) == ClampBudget(max)

ClampMin(min, max) ==
  IF ClampBudget(min) > ClampBudget(max) THEN ClampBudget(max) ELSE ClampBudget(min)

\* A Chunk whose offsets are relative to its own text.
ChunkOfRelative(index, from, end, tokens) ==
  [ chunk_index |-> index, text |-> Slice(content, from, end),
    char_start |-> 0, char_end |-> end - from, tokens |-> tokens ]

\* Chunk(chunk_index, text=content[start:best_end], char_start, char_end, tokens)
ChunkOf(index, from, end, tokens) ==
  [ chunk_index |-> index, text |-> Slice(content, from, end),
    char_start |-> from, char_end |-> end, tokens |-> tokens ]

\* None, for best_end, best_tokens, fallback_end and fallback_tokens.
NoEnd == -1

NoneFound ==
  [ best_end |-> NoEnd, best_tokens |-> NoEnd,
    fallback_end |-> NoEnd, fallback_tokens |-> NoEnd ]

\* A choice that keeps the first best end it meets.
CandidateFirst(sel, end, tokens) ==
  IF tokens >= min_tokens
  THEN IF sel.best_end # NoEnd THEN sel
       ELSE [sel EXCEPT !.best_end = end, !.best_tokens = tokens]
  ELSE [sel EXCEPT !.fallback_end = end, !.fallback_tokens = tokens]

\* Lines 158-164: a candidate within max_tokens is the best end when it
\* reaches min_tokens, and the fallback end when it does not.
Candidate(sel, end, tokens) ==
  IF tokens >= min_tokens
  THEN [sel EXCEPT !.best_end = end, !.best_tokens = tokens]
  ELSE [sel EXCEPT !.fallback_end = end, !.fallback_tokens = tokens]

\* The loop over all_boundaries of the approximate path (lines 152-165),
\* from the i-th boundary on.
RECURSIVE ScanBoundaries(_, _)
ScanBoundaries(sel, i) ==
  IF i > Len(all_boundaries) THEN sel
  ELSE IF all_boundaries[i] <= chunk_start THEN ScanBoundaries(sel, i + 1)
  ELSE IF count_tokens(Slice(content, chunk_start, all_boundaries[i])) <= max_tokens
    THEN ScanBoundaries(
           Candidate(sel, all_boundaries[i],
                     count_tokens(Slice(content, chunk_start, all_boundaries[i]))),
           i + 1)
  ELSE sel

\* An end and the token count of the text up to it.
ChoiceAt(end) ==
  [end |-> end, tokens |-> count_tokens(Slice(content, chunk_start, end))]

\* A hard cut that forgets where the chunk starts.
HardCutFromZero(n, from, max) ==
  IF n < max * CHARS_PER_TOKEN THEN n ELSE max * CHARS_PER_TOKEN

\* min(n, start + max_tokens * 4)
HardCut(n, from, max) ==
  IF n < from + max * CHARS_PER_TOKEN THEN n ELSE from + max * CHARS_PER_TOKEN

\* Lines 167-173: the best end, else the fallback end, else a hard cut.
ApproxChoice(sel) ==
  IF sel.best_end = NoEnd \/ sel.best_end <= chunk_start
  THEN IF sel.fallback_end # NoEnd /\ sel.fallback_end > chunk_start
       THEN [end |-> sel.fallback_end, tokens |-> sel.fallback_tokens]
       ELSE ChoiceAt(HardCut(Len(content), chunk_start, max_tokens))
  ELSE [end |-> sel.best_end, tokens |-> sel.best_tokens]

\* A max_end that forgets where the chunk starts.
MaxEndFromZero(from, truncated) == Len(truncated)

\* max_end = start + len(truncated)
MaxEnd(from, truncated) == from + Len(truncated)

\* bisect_right(bs, x): the number of elements of the sorted bs that are <= x.
BisectRight(bs, x) == Cardinality({i \in 1..Len(bs) : bs[i] <= x})

\* Lines 142-146: the last boundary within max_end when it is past start,
\* else max_end itself.
BoundaryOrCut(idx, max_end) ==
  IF idx >= 1 /\ all_boundaries[idx] > chunk_start THEN all_boundaries[idx] ELSE max_end

ExactEnd(max_end) == BoundaryOrCut(BisectRight(all_boundaries, max_end), max_end)

\* The contents the chunker is run on: up to MaxPieces pieces of text, with
\* sentence ends, paragraph ends, runs without a boundary and wide characters.
MaxPieces == 3

\* The budgets the chunker is run with: 0..MaxBudget, for each of min and max.
MaxBudget == 2

Pieces ==
  << <<"a", "a", "a", ".", " ">>,
     <<"a", "a", NL, NL>>,
     Rep("a", 2 * CHARS_PER_TOKEN + 1),
     <<WIDE>>,
     <<".", " ">>,
     <<"a">> >>

Contents ==
  { Join([i \in 1..Len(p) |-> Pieces[p[i]]], <<>>) :
      p \in UNION {[1..k -> 1..Len(Pieces)] : k \in 0..MaxPieces} }

ChunkInit ==
  /\ content \in Contents
  /\ tiktoken \in BOOLEAN
  /\ budgets \in [min_tokens : 0..MaxBudget, max_tokens : 0..MaxBudget]
  /\ min_tokens = budgets.min_tokens
  /\ max_tokens = budgets.max_tokens
  /\ all_boundaries = <<>>
  /\ chunk_start = 0
  /\ chunk_index = 0
  /\ chunks = <<>>
  /\ chunk_pc = "call"
  /\ SectIdle
  /\ CleanIdle
  /\ IxIdle
  /\ PackIdle
  /\ NormIdle
  /\ FetchIdle

\* Lines 97-100: no content, no chunks.
ReturnNoChunks ==
  /\ chunk_pc = "call"
  /\ content = <<>>
  /\ chunk_pc' = "done"
  /\ UNCHANGED <<content, tiktoken, min_tokens, max_tokens, all_boundaries,
                 chunk_start, chunk_index, chunks>>
  /\ UNCHANGED <<budgets, notChunk>>

\* Lines 102-120: the budgets are clamped, and content within max_tokens is
\* returned as a single chunk.
ReturnSingleChunk ==
  /\ chunk_pc = "call"
  /\ content # <<>>
  /\ count_tokens(content) <= ClampMax(max_tokens)
  /\ min_tokens' = ClampMin(min_tokens, max_tokens)
  /\ max_tokens' = ClampMax(max_tokens)
  /\ chunks' = <<ChunkOf(0, 0, Len(content), count_tokens(content))>>
  /\ chunk_pc' = "done"
  /\ UNCHANGED <<content, tiktoken, all_boundaries, chunk_start, chunk_index>>
  /\ UNCHANGED <<budgets, notChunk>>

\* Lines 102-129: the budgets are clamped, and content over max_tokens goes
\* to the loop with its boundaries.
EnterLoop ==
  /\ chunk_pc = "call"
  /\ content # <<>>
  /\ count_tokens(content) > ClampMax(max_tokens)
  /\ min_tokens' = ClampMin(min_tokens, max_tokens)
  /\ max_tokens' = ClampMax(max_tokens)
  /\ all_boundaries' = AllBoundaries(content)
  /\ chunk_start' = 0
  /\ chunk_index' = 0
  /\ chunk_pc' = "loop"
  /\ UNCHANGED <<content, tiktoken, chunks>>
  /\ UNCHANGED <<budgets, notChunk>>

\* break
Break ==
  /\ chunk_pc' = "done"
  /\ UNCHANGED <<chunk_start, chunk_index, chunks>>

\* Lines 175-191: no chunk for an empty text, else the chunk is appended and
\* the next one starts where it ends.
Emit(choice) ==
  IF Slice(content, chunk_start, choice.end) = <<>> THEN Break
  ELSE /\ chunks' = Append(chunks, ChunkOf(chunk_index, chunk_start, choice.end, choice.tokens))
       /\ chunk_index' = chunk_index + 1
       /\ chunk_start' = choice.end
       /\ UNCHANGED chunk_pc

\* Lines 138-150: the exact path, given the truncated rest of the content.
ExactStep(truncated) ==
  IF truncated = <<>> THEN Break
  ELSE Emit(ChoiceAt(ExactEnd(MaxEnd(chunk_start, truncated))))

\* One iteration of the loop with tiktoken (lines 131-150, 175-191).
IterateExact ==
  /\ chunk_pc = "loop"
  /\ chunk_start < Len(content)
  /\ tiktoken
  /\ ExactStep(truncate_to_tokens(Slice(content, chunk_start, Len(content)), max_tokens))
  /\ UNCHANGED <<content, tiktoken, min_tokens, max_tokens, all_boundaries>>
  /\ UNCHANGED <<budgets, notChunk>>

\* One iteration of the loop without tiktoken (lines 131-136, 151-191).
IterateApprox ==
  /\ chunk_pc = "loop"
  /\ chunk_start < Len(content)
  /\ ~tiktoken
  /\ Emit(ApproxChoice(ScanBoundaries(NoneFound, 1)))
  /\ UNCHANGED <<content, tiktoken, min_tokens, max_tokens, all_boundaries>>
  /\ UNCHANGED <<budgets, notChunk>>

\* The loop is over: chunk_section returns its chunks (line 193).
ReturnChunks ==
  /\ chunk_pc = "loop"
  /\ chunk_start >= Len(content)
  /\ chunk_pc' = "done"
  /\ UNCHANGED <<content, tiktoken, min_tokens, max_tokens, all_boundaries,
                 chunk_start, chunk_index, chunks>>
  /\ UNCHANGED <<budgets, notChunk>>

ChunkNext ==
  \/ ReturnNoChunks
  \/ ReturnSingleChunk
  \/ EnterLoop
  \/ IterateExact
  \/ IterateApprox
  \/ ReturnChunks

\* chunk_section() on every content and every pair of budgets, with and
\* without tiktoken.
SpecChunk == ChunkInit /\ [][ChunkNext]_vars

\* The call has content to work on and has not looked at it yet.
AtCall == chunk_pc = "call" /\ content # <<>>

\* The loop has a chunk to cut.
InLoop == chunk_pc = "loop" /\ chunk_start < Len(content)

\* chunk_section() runs on: a call that can take a step takes it.  This is
\* weak fairness of every action; for the actions that look at the content,
\* WF is written out with the condition under which they are enabled, AtCall
\* for the first two and InLoop for the iterations.
SpecChunkFair ==
  /\ SpecChunk
  /\ WF_vars(ReturnNoChunks)
  /\ WF_vars(ReturnChunks)
  /\ ([]<>(~AtCall) \/ []<><<ReturnSingleChunk \/ EnterLoop>>_vars)
  /\ ([]<>(~InLoop) \/ []<><<IterateExact \/ IterateApprox>>_vars)

(***************************************************************************)
(* The chunker's properties                                                *)
(***************************************************************************)
\* chunk_section() has returned.
ChunksReturned == chunk_pc = "done"

\* C3: the chunks chunk_section returns are numbered 0, 1, 2, ..., the first
\* starts at 0, each starts where the previous one ends, and the last ends
\* at len(content): the ranges cover the content with no gap and no overlap,
\* with and without tiktoken.
C3_Coverage ==
  ChunksReturned =>
    /\ (content # <<>>) => (chunks # <<>>)
    /\ \A i \in 1..Len(chunks) :
         /\ chunks[i].chunk_index = i - 1
         /\ chunks[i].char_start = (IF i = 1 THEN 0 ELSE chunks[i - 1].char_end)
    /\ (chunks # <<>>) => (chunks[Len(chunks)].char_end = Len(content))

\* Three chunks or more were returned on the exact path.
C3_Witness ==
  /\ ChunksReturned
  /\ tiktoken
  /\ Len(chunks) >= 3

\* C4: every chunk that chunk_section emits has
\* 0 <= char_start < char_end <= len(content) and a non-empty text that is
\* content[char_start:char_end], whatever the content and the budgets.
C4_ChunkInRange ==
  \A i \in 1..Len(chunks) :
    /\ 0 <= chunks[i].char_start
    /\ chunks[i].char_start < chunks[i].char_end
    /\ chunks[i].char_end <= Len(content)
    /\ chunks[i].text # <<>>
    /\ chunks[i].text = Slice(content, chunks[i].char_start, chunks[i].char_end)

\* A second chunk was emitted by a hard cut, under a budget that was invalid.
C4_Witness ==
  /\ ~tiktoken
  /\ Len(chunks) >= 2
  /\ \A k \in 1..Len(all_boundaries) : all_boundaries[k] # chunks[2].char_end
  /\ min_tokens > 0

\* C5: every chunk that chunk_section emits records a token count of at
\* most max_tokens (clamped to at least 1).
C5_TokensWithinMax ==
  \A i \in 1..Len(chunks) : chunks[i].tokens <= ClampMax(max_tokens)

\* max(1, tokens), written out.
AtLeastOne(tokens) == IF tokens < 1 THEN 1 ELSE tokens

\* C13: chunk_section does not fail on invalid budgets: past the clamping, max_tokens
\* is the given one raised to 1, min_tokens is the given one raised to 1 and
\* lowered to max_tokens, and clamping these again changes nothing, so the
\* call with the clamped budgets goes through the same states and returns
\* the same chunks; and the call returns.
C13_BudgetsClamped ==
  (chunk_pc \in {"loop", "done"} /\ content # <<>>) =>
    /\ max_tokens = AtLeastOne(budgets.max_tokens)
    /\ min_tokens = (IF AtLeastOne(budgets.min_tokens) > max_tokens
                     THEN max_tokens ELSE AtLeastOne(budgets.min_tokens))
    /\ 1 <= min_tokens /\ min_tokens <= max_tokens
    /\ ClampMax(max_tokens) = max_tokens
    /\ ClampMin(min_tokens, max_tokens) = min_tokens
    /\ (chunk_pc = "done") => (chunks # <<>> /\ chunks[Len(chunks)].char_end = Len(content))

\* A call with max_tokens below 1 and min_tokens above max_tokens returned
\* two chunks or more.
C13_Witness ==
  /\ ChunksReturned
  /\ budgets.max_tokens < 1
  /\ budgets.min_tokens > budgets.max_tokens
  /\ Len(chunks) >= 2

\* C14 as stated: for any content whose token count is <= max_tokens,
\* chunk_section returns exactly one chunk, with chunk_index 0, char_start 0,
\* char_end len(content) and the content as its text.
C14_SingleChunk ==
  (ChunksReturned /\ count_tokens(content) <= AtLeastOne(budgets.max_tokens)) =>
    /\ Len(chunks) = 1
    /\ chunks[1].chunk_index = 0
    /\ chunks[1].char_start = 0
    /\ chunks[1].char_end = Len(content)
    /\ chunks[1].text = content

\* C14, amended: for any non-empty content whose token count is <=
\* max_tokens, chunk_section returns exactly one chunk, with chunk_index 0,
\* char_start 0, char_end len(content) and the content as its text; for the
\* empty content it returns no chunk.
C14_SingleChunkNonEmpty ==
  /\ (ChunksReturned /\ content # <<>>
        /\ count_tokens(content) <= AtLeastOne(budgets.max_tokens)) =>
       /\ Len(chunks) = 1
       /\ chunks[1].chunk_index = 0
       /\ chunks[1].char_start = 0
       /\ chunks[1].char_end = Len(content)
       /\ chunks[1].text = content
  /\ (ChunksReturned /\ content = <<>>) => (chunks = <<>>)

\* A content of one token or more was returned as a single chunk.
C14_Witness ==
  /\ ChunksReturned
  /\ Len(content) >= CHARS_PER_TOKEN
  /\ count_tokens(content) >= 1
  /\ count_tokens(content) <= max_tokens
  /\ Len(chunks) = 1

\* The candidate boundaries past the cursor whose slice has lo..hi tokens, by
\* the approximate count.
Within(lo, hi) ==
  {all_boundaries[i] : i \in {j \in 1..Len(all_boundaries) :
      /\ all_boundaries[j] > chunk_start
      /\ (all_boundaries[j] - chunk_start) \div CHARS_PER_TOKEN >= lo
      /\ (all_boundaries[j] - chunk_start) \div CHARS_PER_TOKEN <= hi}}

\* The largest number of a non-empty set of numbers.
Largest(S) == CHOOSE x \in S : \A y \in S : y <= x

\* The smaller of two numbers.
Smaller(a, b) == IF a < b THEN a ELSE b

\* C25: without tiktoken, an iteration of the loop of chunk_section ends the
\* chunk at the largest candidate boundary past the cursor whose slice has
\* min_tokens..max_tokens tokens; when there is none, at the largest one whose
\* slice has at most max_tokens tokens; when there is none, at
\* min(len(content), start + 4 * max_tokens).
C25_ApproximateEnd ==
  [][(chunk_pc = "loop" /\ ~tiktoken /\ chunk_start < Len(content)) =>
       /\ Len(chunks') = Len(chunks) + 1
       /\ chunks'[Len(chunks')].char_start = chunk_start
       /\ chunks'[Len(chunks')].char_end = chunk_start'
       /\ chunk_start' =
            (IF Within(min_tokens, max_tokens) # {}
             THEN Largest(Within(min_tokens, max_tokens))
             ELSE IF Within(0, max_tokens) # {}
             THEN Largest(Within(0, max_tokens))
             ELSE Smaller(Len(content), chunk_start + 4 * max_tokens))]_vars

\* Without tiktoken, the first chunk ended at a boundary with min_tokens or
\* more that is not the first boundary, and the second at a hard cut.
C25_Witness ==
  /\ ~tiktoken
  /\ Len(chunks) >= 2
  /\ chunks[1].tokens >= min_tokens
  /\ \E k \in 2..Len(all_boundaries) : all_boundaries[k] = chunks[1].char_end
  /\ \A k \in 1..Len(all_boundaries) : all_boundaries[k] # chunks[2].char_end

\* C26: chunk_section returns, for every content and every pair of budgets;
\* an iteration of its loop that stays in the loop moves the cursor forward,
\* and the loop is left with the cursor at len(content).
C26_LoopTerminates ==
  /\ <>(chunk_pc = "done")
  /\ [][(chunk_pc = "loop") =>
          IF chunk_pc' = "loop"
          THEN chunk_start' > chunk_start
          ELSE chunk_start' = chunk_start /\ chunk_start = Len(content)]_vars

\* The loop was left after three iterations or more, with the cursor at
\* len(content).
C26_Witness ==
  /\ chunk_pc = "done"
  /\ chunk_index >= 3
  /\ chunk_start = Len(content)

(***************************************************************************)
(* The HTML sanitizer (parse/html_clean.py)                                *)
(***************************************************************************)
REMOVE_TAGS ==
  { <<"s","c","r","i","p","t">>, <<"s","t","y","l","e">>,
    <<"n","o","s","c","r","i","p","t">>, <<"n","a","v">>,
    <<"h","e","a","d","e","r">>, <<"f","o","o","t","e","r">>,
    <<"i","f","r","a","m","e">>, <<"o","b","j","e","c","t">>,
    <<"e","m","b","e","d">>, <<"m","e","t","a">>, <<"l","i","n","k">>,
    <<"b","a","s","e">> }

VOID_TAGS ==
  { <<"a","r","e","a">>, <<"b","a","s","e">>, <<"b","r">>, <<"c","o","l">>,
    <<"e","m","b","e","d">>, <<"h","r">>, <<"i","m","g">>,
    <<"i","n","p","u","t">>, <<"l","i","n","k">>, <<"m","e","t","a">>,
    <<"p","a","r","a","m">>, <<"s","o","u","r","c","e">>,
    <<"t","r","a","c","k">>, <<"w","b","r">> }

A_HIDDEN == <<"h","i","d","d","e","n">>
A_ARIA_HIDDEN == <<"a","r","i","a","-","h","i","d","d","e","n">>
A_STYLE == <<"s","t","y","l","e">>
A_CLASS == <<"c","l","a","s","s">>
A_ID == <<"i","d">>
A_ON == <<"o","n">>
A_DATA == <<"d","a","t","a","-">>
V_TRUE == <<"t","r","u","e">>
V_ONE == <<"1">>
W_DISPLAY == <<"d","i","s","p","l","a","y">>
W_NONE == <<"n","o","n","e">>
W_VISIBILITY == <<"v","i","s","i","b","i","l","i","t","y">>

\* Whether word, optional whitespace, ":", optional whitespace and value
\* occur in style at position i, compared case-insensitively.
CssAt(style, i, word, value) ==
  /\ AtCI(style, i, word)
  /\ At(style, SkipSet(style, i + Len(word), SpaceSet), <<":">>)
  /\ AtCI(style, SkipSet(style, SkipSet(style, i + Len(word), SpaceSet) + 1, SpaceSet),
          value)

\* is_hidden_style(style), for the patterns display:none and visibility:hidden.
is_hidden_style(style) ==
  \E i \in 1..Len(style) :
    CssAt(style, i, W_DISPLAY, W_NONE) \/ CssAt(style, i, W_VISIBILITY, A_HIDDEN)

\* A dict is a sequence of <<key, value>> pairs in insertion order.
\* d.get(key, ""): the value of key in the dict d, "" if it has none.
DictGet(d, key) ==
  IF \E i \in 1..Len(d) : d[i][1] = key
  THEN d[CHOOSE i \in 1..Len(d) : d[i][1] = key][2]
  ELSE <<>>

\* d[key] = value
DictPut(d, key, value) ==
  IF \E i \in 1..Len(d) : d[i][1] = key
  THEN [i \in 1..Len(d) |-> IF d[i][1] = key THEN <<key, value>> ELSE d[i]]
  ELSE Append(d, <<key, value>>)

\* The value None of an attribute that is given without a value.
None == <<"~none">>

\* {k: (v if v is not None else "") for k, v in attrs}
RECURSIVE AttrDict(_, _)
AttrDict(attrs, d) ==
  IF attrs = <<>> THEN d
  ELSE AttrDict(Tail(attrs),
                DictPut(d, attrs[1][1], IF attrs[1][2] = None THEN <<>> ELSE attrs[1][2]))

\* is_hidden_element(attributes)
is_hidden_element(attributes) ==
  /\ attributes # <<>>
  /\ \/ \E i \in 1..Len(attributes) : Lower(attributes[i][1]) = A_HIDDEN
     \/ Lower(Strip(DictGet(attributes, A_ARIA_HIDDEN))) \in {V_TRUE, V_ONE}
     \/ is_hidden_style(DictGet(attributes, A_STYLE))

\* An attribute that is kept whatever its name.
KeepsAny(name_l) == TRUE

\* Lines 167-172: the attributes that are kept, by their lower-case name.
Keeps(name_l) ==
  /\ name_l \notin {A_CLASS, A_ID, A_STYLE}
  /\ ~At(name_l, 1, A_ON)
  /\ ~At(name_l, 1, A_DATA)

\* Lines 164-173: kept, from the attributes of attr_dict in order.
RECURSIVE KeptDict(_, _)
KeptDict(d, kept) ==
  IF d = <<>> THEN kept
  ELSE KeptDict(Tail(d),
                IF Keeps(Lower(d[1][1])) THEN DictPut(kept, Lower(d[1][1]), d[1][2])
                ELSE kept)

DigitChars == <<"0","1","2","3","4","5","6","7","8","9">>

\* ord(c), for the characters of attribute names: "-", digits and letters.
Ord(c) ==
  IF c \in LowerSet THEN 96 + CHOOSE i \in 1..26 : LowerChars[i] = c
  ELSE IF c \in UpperSet THEN 64 + CHOOSE i \in 1..26 : UpperChars[i] = c
  ELSE IF c \in DigitSet THEN 47 + CHOOSE i \in 1..10 : DigitChars[i] = c
  ELSE 45

\* a < b, for strings
StrLess(a, b) ==
  \E i \in 1..(Len(a) + 1) :
    /\ \A k \in 1..(i - 1) : k <= Len(b) /\ a[k] = b[k]
    /\ i <= Len(b)
    /\ (i = Len(a) + 1 \/ Ord(a[i]) < Ord(b[i]))

\* sorted(kept.items())
RECURSIVE SortedItems(_)
SortedItems(d) ==
  IF d = <<>> THEN <<>>
  ELSE LET m == CHOOSE i \in 1..Len(d) : \A k \in 1..Len(d) : ~StrLess(d[k][1], d[i][1])
       IN <<d[m]>> \o SortedItems(SelectSeq(d, LAMBDA p : p # d[m]))

\* html.escape(c, quote=True), of one character
EscapeC(c) ==
  CASE c = "&"  -> <<"&","a","m","p",";">>
    [] c = "<"  -> <<"&","l","t",";">>
    [] c = ">"  -> <<"&","g","t",";">>
    [] c = "\"" -> <<"&","q","u","o","t",";">>
    [] c = "'"  -> <<"&","#","x","2","7",";">>
    [] OTHER    -> <<c>>

\* html.escape(v, quote=True)
escape(v) == Join([i \in 1..Len(v) |-> EscapeC(v[i])], <<>>)

\* Line 177: k="escaped v" for every item of a non-empty value.
RenderParts(items) ==
  [i \in 1..Len(items) |-> items[i][1] \o <<"=", "\"">> \o escape(items[i][2]) \o <<"\"">>]

AttrsRendered(items) ==
  IF items = <<>> THEN <<>> ELSE <<" ">> \o Join(RenderParts(items), <<" ">>)

\* Lines 175-181: <tag attrs>
StartTagText(tag_l, kept) ==
  <<"<">> \o tag_l
    \o AttrsRendered(SelectSeq(SortedItems(kept), LAMBDA p : p[2] # <<>>))
    \o <<">">>

\* Line 196: </tag>
EndTagText(tag_l) == <<"<", "/">> \o tag_l \o <<">">>

RECURSIVE CollapseNewlines(_)
\* re.sub(r"\n{3,}", "\n\n", s)
CollapseNewlines(s) ==
  LET hits == Positions(s, {NL})
      j == CHOOSE i \in hits : \A k \in hits : i <= k
      e == SkipSet(s, j, {NL})
  IN IF hits = {} THEN s
     ELSE SubSeq(s, 1, j - 1)
          \o (IF e - j >= 3 THEN <<NL, NL>> ELSE SubSeq(s, j, e - 1))
          \o CollapseNewlines(SubSeq(s, e, Len(s)))

\* Whether the run of spaces that holds position i of s touches a newline.
TouchesNewline(s, i) ==
  LET e == SkipSet(s, i, {" "})
      b == CHOOSE j \in 0..i : /\ \A k \in (j + 1)..i : s[k] = " "
                               /\ (j = 0 \/ s[j] # " ")
  IN (e <= Len(s) /\ s[e] = NL) \/ (b >= 1 /\ s[b] = NL)

\* re.sub(r" *\n *", "\n", s)
StripAroundNewlines(s) ==
  LET keep == {i \in 1..Len(s) : ~(s[i] = " " /\ TouchesNewline(s, i))}
  IN [k \in 1..Cardinality(keep) |->
        s[CHOOSE i \in keep : Cardinality({j \in keep : j <= i}) = k]]

\* _normalize_whitespace(html)
normalize_whitespace(html) ==
  StripSet(
    StripAroundNewlines(
      CollapseNewlines(
        CollapseRuns(
          ReplaceAll(ReplaceAll(ReplaceAll(html, <<"\t">>, <<" ">>),
                                <<"\r", NL>>, <<NL>>),
                     <<"\r">>, <<NL>>),
          {" "}, <<" ">>))),
    SpaceSet \cup {"\r"})

RECURSIVE SplitLines(_)
\* s.split("\n")
SplitLines(s) ==
  LET hits == Positions(s, {NL})
      j == CHOOSE i \in hits : \A k \in hits : i <= k
  IN IF hits = {} THEN <<s>>
     ELSE <<SubSeq(s, 1, j - 1)>> \o SplitLines(SubSeq(s, j + 1, Len(s)))

\* Lines 313-318 of md_render.py: a line loses its trailing whitespace, and
\* gets two spaces back when it ended in two.
CleanedLine(line) ==
  IF Len(line) >= 2 /\ line[Len(line)] = " " /\ line[Len(line) - 1] = " "
  THEN RStrip(line) \o <<" ", " ">>
  ELSE RStrip(line)

\* _normalize_output(md) of md_render.py
normalize_output(md) ==
  LET lines == SplitLines(CollapseNewlines(
                 ReplaceAll(ReplaceAll(md, <<"\r", NL>>, <<NL>>), <<"\r">>, <<NL>>)))
  IN StripSet(Join([i \in 1..Len(lines) |-> CleanedLine(lines[i])], <<NL>>),
              SpaceSet \cup {"\r"})

(***************************************************************************)
(* The two normalizers, each run on every text of a few characters         *)
(***************************************************************************)
\* How long a text is at most.
MaxChars == 6

NormChars == {"a", " ", NL, "\r", "\t"}

Texts == UNION {[1..n -> NormChars] : n \in 0..MaxChars}

NormInit ==
  /\ norm_md \in Texts
  /\ norm_out = <<>>
  /\ norm_pc = "call"
  /\ SectIdle
  /\ ChunkIdle
  /\ CleanIdle
  /\ IxIdle
  /\ PackIdle
  /\ FetchIdle

\* The renderer normalizes its output (md_render.py, lines 297-325).
NormalizeOutput ==
  /\ norm_pc = "call"
  /\ norm_out' = normalize_output(norm_md)
  /\ norm_pc' = "rendered"
  /\ UNCHANGED <<norm_md, notNorm>>

\* The sanitizer normalizes its output (html_clean.py, lines 101-113).
NormalizeWhitespace ==
  /\ norm_pc = "call"
  /\ norm_out' = normalize_whitespace(norm_md)
  /\ norm_pc' = "cleaned"
  /\ UNCHANGED <<norm_md, notNorm>>

NormNext ==
  \/ NormalizeOutput
  \/ NormalizeWhitespace

SpecNorm == NormInit /\ [][NormNext]_vars

\* Whether a text holds three newlines in a row.
BlankRun(s) == \E i \in 1..(Len(s) - 2) : s[i] = NL /\ s[i + 1] = NL /\ s[i + 2] = NL

\* C28: what _normalize_output returns, and what _normalize_whitespace
\* returns, holds no three newlines in a row and neither starts nor ends with
\* whitespace.
C28_NoBlankRuns ==
  (norm_pc \in {"rendered", "cleaned"}) =>
    /\ ~BlankRun(norm_out)
    /\ (norm_out # <<>>) =>
         /\ norm_out[1] \notin SpaceSet \cup {"\r"}
         /\ norm_out[Len(norm_out)] \notin SpaceSet \cup {"\r"}

(***************************************************************************)
(* clean_html() as a state machine: the parser hands the events of the     *)
(* markup to the handlers one by one, then the output is joined and        *)
(* normalized.                                                             *)
(***************************************************************************)
MaxEvents == 3

AttrBank ==
  << <<>>,
     << <<A_CLASS, <<"x">>>>, <<<<"H","R","E","F">>, <<"a", "\"", "b">>>> >>,
     << <<A_ID, <<"i">>>>, <<<<"o","n","C","l","i","c","k">>, <<"f">>>>,
        <<<<"d","a","t","a","-","x">>, <<"d">>>>, <<<<"h","r","e","f">>, <<"u">>>>,
        <<<<"a","l","t">>, <<"t">>>> >>,
     << <<A_HIDDEN, None>> >>,
     << <<A_STYLE, <<"d","i","s","p","l","a","y",":"," ","n","o","n","e">>>> >>,
     << <<<<"A","L","T">>, <<"x">>>>, <<<<"a","l","t">>, <<>>>>,
        <<<<"a","-","b">>, <<"&">>>>, <<<<"a","b">>, <<"<">>>> >> >>

T_NAV == <<"n","a","v">>
T_DIV == <<"d","i","v">>
T_P == <<"P">>
T_BR == <<"b","r">>
T_META == <<"m","e","t","a">>

TagBank == {T_NAV, T_DIV, T_P, T_BR, T_META}

\* The start tags that are fed: a tag and the index of its attributes.
StartBank ==
  ({T_DIV} \X (1..Len(AttrBank))) \cup ({T_P} \X {1, 3}) \cup ({T_BR} \X {1, 4})
     \cup {<<T_NAV, 1>>, <<T_META, 1>>}

\* The self-closing tags that are fed.
StartEndBank == ({T_DIV} \X {1, 4}) \cup {<<T_BR, 1>>, <<T_META, 1>>}

DataBank == { <<"s">>, <<>>, <<" ", "\t", NL, " ", NL, "\r", NL, " ">> }

CleanInit ==
  /\ fed = <<>>
  /\ out = <<>>
  /\ skip_depth = 0
  /\ cleaned = <<>>
  /\ clean_pc = "feed"
  /\ SectIdle
  /\ ChunkIdle
  /\ IxIdle
  /\ PackIdle
  /\ NormIdle
  /\ FetchIdle

\* self.out.append(text), by the handler of the event being fed
Appended(o, text, kind) ==
  Append(o, [text |-> text, kind |-> kind, event |-> Len(fed) + 1])

\* A handle_starttag that counts void elements as it counts the others.
StartTagCountsVoid(tag, attrs, st) ==
  LET tag_l == Lower(tag)
      attr_dict == AttrDict(attrs, <<>>)
  IN IF st.skip_depth > 0
     THEN [st EXCEPT !.skip_depth = @ + 1]
     ELSE IF tag_l \in REMOVE_TAGS \/ is_hidden_element(attr_dict)
     THEN [st EXCEPT !.skip_depth = 1]
     ELSE [st EXCEPT !.out = Appended(@, StartTagText(tag_l, KeptDict(attr_dict, <<>>)),
                                      "starttag")]

\* handle_starttag(tag, attrs) from the state <<skip_depth, out>>
StartTag(tag, attrs, st) ==
  LET tag_l == Lower(tag)
      attr_dict == AttrDict(attrs, <<>>)
  IN IF st.skip_depth > 0
     THEN [st EXCEPT !.skip_depth = IF tag_l \notin VOID_TAGS THEN @ + 1 ELSE @]
     ELSE IF tag_l \in REMOVE_TAGS \/ is_hidden_element(attr_dict)
     THEN [st EXCEPT !.skip_depth = IF tag_l \notin VOID_TAGS THEN 1 ELSE @]
     ELSE [st EXCEPT !.out = Appended(@, StartTagText(tag_l, KeptDict(attr_dict, <<>>)),
                                      "starttag")]

\* handle_endtag(tag) from the state <<skip_depth, out>>
EndTag(tag, st) ==
  LET tag_l == Lower(tag)
  IN IF st.skip_depth > 0
     THEN [st EXCEPT !.skip_depth = IF @ - 1 < 0 THEN 0 ELSE @ - 1]
     ELSE IF tag_l \in VOID_TAGS THEN st
     ELSE [st EXCEPT !.out = Appended(@, EndTagText(tag_l), "endtag")]

ParserState == [skip_depth |-> skip_depth, out |-> out]

Fed(event, st) ==
  /\ clean_pc = "feed"
  /\ Len(fed) < MaxEvents
  /\ fed' = Append(fed, event)
  /\ skip_depth' = st.skip_depth
  /\ out' = st.out
  /\ UNCHANGED <<cleaned, clean_pc, notClean>>

HandleStartTag ==
  \E e \in StartBank :
    Fed([kind |-> "starttag", tag |-> e[1], attrs |-> AttrBank[e[2]]],
        StartTag(e[1], AttrBank[e[2]], ParserState))

HandleEndTag ==
  \E tag \in TagBank :
    Fed([kind |-> "endtag", tag |-> tag, attrs |-> <<>>], EndTag(tag, ParserState))

HandleStartEndTag ==
  \E e \in StartEndBank :
    Fed([kind |-> "startendtag", tag |-> e[1], attrs |-> AttrBank[e[2]]],
        IF Lower(e[1]) \notin VOID_TAGS
        THEN EndTag(e[1], StartTag(e[1], AttrBank[e[2]], ParserState))
        ELSE StartTag(e[1], AttrBank[e[2]], ParserState))

HandleData ==
  \E data \in DataBank :
    Fed([kind |-> "data", tag |-> data, attrs |-> <<>>],
        IF skip_depth > 0 \/ data = <<>> THEN ParserState
        ELSE [ParserState EXCEPT !.out = Appended(@, data, "data")])

\* Lines 97-98: the output is joined and normalized.
ReturnCleaned ==
  /\ clean_pc = "feed"
  /\ cleaned' = normalize_whitespace(Join([i \in 1..Len(out) |-> out[i].text], <<>>))
  /\ clean_pc' = "done"
  /\ UNCHANGED <<fed, out, skip_depth, notClean>>

CleanNext ==
  \/ HandleStartTag
  \/ HandleEndTag
  \/ HandleStartEndTag
  \/ HandleData
  \/ ReturnCleaned

SpecClean == CleanInit /\ [][CleanNext]_vars

(***************************************************************************)
(* Claims about the sanitizer                                              *)
(***************************************************************************)
\* The first position >= i of text that holds the character c.
Find(text, i, c) == CHOOSE j \in i..Len(text) : text[j] = c /\ \A k \in i..(j - 1) : text[k] # c

\* The tag name of a rendered start tag: what follows "<" up to " " or ">".
EmittedTag(text) ==
  SubSeq(text, 2, (CHOOSE j \in 2..Len(text) :
                     text[j] \in {" ", ">"} /\ \A k \in 2..(j - 1) : text[k] \notin {" ", ">"}) - 1)

RECURSIVE EmittedNames(_, _)
\* The attribute names of a rendered start tag, read from position i, which
\* holds the " " before an attribute or the closing ">".
EmittedNames(text, i) ==
  IF text[i] = ">" THEN <<>>
  ELSE LET e == Find(text, i + 1, "=")
           q == Find(text, e + 2, "\"")
       IN <<SubSeq(text, i + 1, e - 1)>> \o EmittedNames(text, q + 1)

NamesOf(text) == EmittedNames(text, Len(EmittedTag(text)) + 2)

StartTagsOut == {i \in 1..Len(out) : out[i].kind = "starttag"}

\* C11: every start tag the sanitizer emits has a lower-case tag name and
\* lower-case attribute names in ascending order, none of them class, id or
\* style, none starting with "on" and none starting with "data-".
C11_AttributesStripped ==
  \A i \in StartTagsOut :
    LET names == NamesOf(out[i].text)
    IN /\ EmittedTag(out[i].text) = Lower(EmittedTag(out[i].text))
       /\ \A k \in 1..Len(names) :
            /\ names[k] = Lower(names[k])
            /\ names[k] \notin {A_CLASS, A_ID, A_STYLE}
            /\ ~At(names[k], 1, A_ON)
            /\ ~At(names[k], 1, A_DATA)
       /\ \A k \in 1..(Len(names) - 1) : StrLess(names[k], names[k + 1])

\* A start tag was emitted with two attributes, in another order than they
\* were given in, and without some of the attributes it was given with.
C11_Witness ==
  \E i \in StartTagsOut :
    LET names == NamesOf(out[i].text)
        given == fed[out[i].event].attrs
    IN /\ Len(names) >= 2
       /\ Len(given) > Len(names)
       /\ \E a, b \in 1..Len(given) :
            a < b /\ Lower(given[a][1]) = names[2] /\ Lower(given[b][1]) = names[1]

\* The open elements after an event, given the open elements s before it: a
\* start tag of a non-void element opens it, the end tag of a non-void
\* element closes the nearest open element of that name and those opened
\* inside it, and an end tag that matches no open element closes nothing.
Opened(s, e) ==
  LET t == Lower(e.tag)
      same == {i \in 1..Len(s) : s[i].tag = t}
  IN CASE e.kind = "starttag" /\ t \notin VOID_TAGS ->
            Append(s, [tag |-> t,
                       removed |-> \/ t \in REMOVE_TAGS
                                   \/ is_hidden_element(AttrDict(e.attrs, <<>>))])
       [] e.kind = "endtag" /\ t \notin VOID_TAGS /\ same # {} ->
            SubSeq(s, 1, (CHOOSE i \in same : \A k \in same : k <= i) - 1)
       [] OTHER -> s

RECURSIVE OpenAfter(_)
\* The open elements after the first k events that were fed.
OpenAfter(k) == IF k = 0 THEN <<>> ELSE Opened(OpenAfter(k - 1), fed[k])

\* Whether one of the open elements is removed entirely or hidden.
InRemoved(s) == \E i \in 1..Len(s) : s[i].removed

\* C10: nothing is emitted for an event that lies between the start tag of a
\* non-void removed or hidden element and that element's own end tag.
C10_SubtreeDropped ==
  \A i \in 1..Len(out) :
    ~(InRemoved(OpenAfter(out[i].event - 1)) /\ InRemoved(OpenAfter(out[i].event)))

\* The event that a step hands to its handler.
Handled == fed'[Len(fed')]

\* Whether an event is the start tag or the self-closing tag of a void element.
VoidTag(e) == e.kind \in {"starttag", "startendtag"} /\ Lower(e.tag) \in VOID_TAGS

\* Whether an event is the tag of an element to remove or of a hidden one.
Dropped(e) ==
  Lower(e.tag) \in REMOVE_TAGS \/ is_hidden_element(AttrDict(e.attrs, <<>>))

\* C27: the skip depth is never negative; while it is above 0 the handlers
\* append nothing, and the start tag of a void element and a self-closing tag
\* leave it as it is; and the tag of a void element, be it one of the tags to
\* remove or hidden, does not raise it from 0.
C27_SkipDepth ==
  [][(fed' # fed) =>
       /\ skip_depth >= 0
       /\ skip_depth' >= 0
       /\ (skip_depth > 0) => (out' = out)
       /\ (skip_depth > 0 /\ (VoidTag(Handled) \/ Handled.kind = "startendtag"))
            => (skip_depth' = skip_depth)
       /\ (skip_depth = 0 /\ VoidTag(Handled) /\ Dropped(Handled)) => (skip_depth' = 0)]_vars

\* Inside a nav element, a self-closing div and the start tag of a br were
\* handled: the skip depth is 1 and nothing was appended.
C27_Witness ==
  /\ Len(fed) = 3
  /\ fed[1].kind = "starttag" /\ fed[1].tag = T_NAV
  /\ fed[2].kind = "startendtag" /\ fed[2].tag = T_DIV
  /\ fed[3].kind = "starttag" /\ fed[3].tag = T_BR
  /\ skip_depth = 1
  /\ out = <<>>

(***************************************************************************)
(* The inline-XBRL stripper (parse/ixbrl_strip.py)                         *)
(***************************************************************************)
IXBRL_PREFIXES ==
  { <<"i","x",":">>, <<"x","b","r","l","i",":">>, <<"x","b","r","l","d","i",":">>,
    <<"x","b","r","l","d","t",":">>, <<"l","i","n","k",":">>,
    <<"x","l","i","n","k",":">>, <<"i","s","o","4","2","1","7",":">>,
    <<"d","e","i",":">>, <<"u","s","-","g","a","a","p",":">>, <<"s","r","t",":">>,
    <<"c","o","u","n","t","r","y",":">> }

W_XMLNS == <<"x","m","l","n","s">>

\* (?:xbrl|ixbrl|fasb|sec\.gov)
XBRL_WORDS ==
  { <<"x","b","r","l">>, <<"i","x","b","r","l">>, <<"f","a","s","b">>,
    <<"s","e","c",".","g","o","v">> }

\* [a-zA-Z0-9_-]
PrefixChars == UpperSet \cup LowerSet \cup DigitSet \cup {"_", "-"}

\* \s
WhiteSet == SpaceSet \cup {"\r"}

\* ="[^"]*(?:xbrl|ixbrl|fasb|sec\.gov)[^"]*" at position i of s: the position
\* of the closing quote, 0 when it does not match.
QuotedUriEnd(s, i) ==
  IF ~At(s, i, <<"=", "\"">>) \/ \A j \in (i + 2)..Len(s) : s[j] # "\"" THEN 0
  ELSE LET q == CHOOSE j \in (i + 2)..Len(s) :
                  s[j] = "\"" /\ \A k \in (i + 2)..(j - 1) : s[k] # "\""
       IN IF \E w \in XBRL_WORDS, k \in (i + 2)..(q - 1) :
               k + Len(w) <= q /\ AtCI(s, k, w)
          THEN q ELSE 0

\* XMLNS_PREFIX_PATTERN at position i of s: whether it matches, and group 1.
XmlnsPrefixAt(s, i) ==
  LET e == SkipSet(s, i + 6, PrefixChars)
  IN IF AtCI(s, i, W_XMLNS \o <<":">>) /\ e > i + 6 /\ QuotedUriEnd(s, e) > 0
     THEN [ok |-> TRUE, group1 |-> SubSeq(s, i + 6, e - 1)]
     ELSE [ok |-> FALSE, group1 |-> <<>>]

\* Lines 51-53: the prefixes of the annotation tags of html.
Prefixes(html) ==
  IXBRL_PREFIXES \cup
    { XmlnsPrefixAt(html, i).group1 \o <<":">> :
        i \in {j \in 1..Len(html) : XmlnsPrefixAt(html, j).ok} }

\* The pattern of _build_ixbrl_tag_pattern(prefixes) at position i of s: the
\* position of the closing ">", 0 when it does not match.
TagEnd(s, i, prefixes) ==
  LET j == IF At(s, i + 1, <<"/">>) THEN i + 2 ELSE i + 1
      hits == {p \in prefixes : AtCI(s, j, p)}
      from == j + Len(CHOOSE p \in hits : TRUE)
  IN IF ~At(s, i, <<"<">>) \/ hits = {} THEN 0
     ELSE IF \A k \in from..Len(s) : s[k] # ">" THEN 0
     ELSE CHOOSE k \in from..Len(s) : s[k] = ">" /\ \A m \in from..(k - 1) : s[m] # ">"

\* XMLNS_PATTERN at position i of s: the position of the closing quote, 0 when
\* it does not match.
XmlnsEnd(s, i) ==
  LET w == SkipSet(s, i, WhiteSet)
      e == SkipSet(s, w + 6, PrefixChars)
  IN IF w = i \/ ~AtCI(s, w, W_XMLNS) THEN 0
     ELSE IF At(s, w + 5, <<":">>)
     THEN (IF e > w + 6 THEN QuotedUriEnd(s, e) ELSE 0)
     ELSE QuotedUriEnd(s, w + 5)

RECURSIVE RemoveTags(_, _)
\* pattern.sub("", s)
RemoveTags(s, prefixes) ==
  LET hits == {i \in 1..Len(s) : TagEnd(s, i, prefixes) > 0}
      i == CHOOSE h \in hits : \A k \in hits : h <= k
  IN IF hits = {} THEN s
     ELSE SubSeq(s, 1, i - 1)
          \o RemoveTags(SubSeq(s, TagEnd(s, i, prefixes) + 1, Len(s)), prefixes)

RECURSIVE RemoveXmlns(_)
\* XMLNS_PATTERN.sub("", s)
RemoveXmlns(s) ==
  LET hits == {i \in 1..Len(s) : XmlnsEnd(s, i) > 0}
      i == CHOOSE h \in hits : \A k \in hits : h <= k
  IN IF hits = {} THEN s
     ELSE SubSeq(s, 1, i - 1) \o RemoveXmlns(SubSeq(s, XmlnsEnd(s, i) + 1, Len(s)))

\* re.sub(r"  +", " ", s)
CollapseSpaces(s) == CollapseRuns(s, {" "}, <<" ">>)

\* strip_ixbrl(html)
strip_ixbrl(html) == CollapseSpaces(RemoveXmlns(RemoveTags(html, Prefixes(html))))

(***************************************************************************)
(* strip_ixbrl() on the markups that are made of a few parts               *)
(***************************************************************************)
MaxParts == 3

Parts ==
  << <<"a">>,
     <<" ", " ">>,
     <<"<", "b", ">">>,
     <<"<", "i", "x", ":", "n", " ", "i", "d", "=", "\"", "1", "\"", ">">>,
     <<"<", "/", "I", "X", ":", "n", ">">>,
     <<" ", "x", "m", "l", "n", "s", ":", "q", "=", "\"", "x", "b", "r", "l", "\"">>,
     <<"<", "q", ":", "y", ">">>,
     <<"<", "d", "e", "i", ":">>,
     <<" ", "X", "M", "L", "N", "S", "=", "\"", "w", "3", "\"">> >>

Markups ==
  { Join([i \in 1..Len(p) |-> Parts[p[i]]], <<>>) :
      p \in UNION {[1..k -> 1..Len(Parts)] : k \in 0..MaxParts} }

IxInit ==
  /\ ix_html \in Markups
  /\ ix_result = <<>>
  /\ ix_pc = "call"
  /\ SectIdle
  /\ ChunkIdle
  /\ CleanIdle
  /\ PackIdle
  /\ NormIdle
  /\ FetchIdle

StripIxbrl ==
  /\ ix_pc = "call"
  /\ ix_result' = strip_ixbrl(ix_html)
  /\ ix_pc' = "done"
  /\ UNCHANGED <<ix_html, notIx>>

IxNext == StripIxbrl

SpecIx == IxInit /\ [][IxNext]_vars

\* The tags and declarations that strip_ixbrl() is to remove are removed from
\* the markup, and nothing else is.
OnlyAnnotationsRemoved(html) == RemoveXmlns(RemoveTags(html, Prefixes(html)))

\* C12: strip_ixbrl() returns the markup without the annotation tags and
\* without the XBRL namespace declarations, every other character unchanged
\* and in order; a markup that has neither is returned as it is.
C12_TextUntouched ==
  ix_pc = "done" => ix_result = OnlyAnnotationsRemoved(ix_html)

(***************************************************************************)
(* The manifest (pack/manifest.py)                                         *)
(***************************************************************************)
\* hashlib.sha256(content).hexdigest(): the digest stands for the content.
compute_sha256(bytes) == <<"sha256", bytes>>

\* datetime(year, month, day, tzinfo=UTC)
Midnight(date) ==
  [year |-> date.year, month |-> date.month, day |-> date.day, hour |-> 0, tz |-> "UTC"]

\* datetime.now(UTC), for the clock of the model
Now == [year |-> 2025, month |-> 1, day |-> 1, hour |-> clock, tz |-> "UTC"]

\* A timestamp taken from the wall clock.
stable_at_now(filing_date) == Now

\* Lines 111-117: stable_at
stable_at(filing_date) == Midnight(filing_date)

\* Lines 93-108: section_infos, of the sections secs
SectionInfos(secs, exact) ==
  [i \in 1..Len(secs) |->
     [id |-> secs[i].id,
      path |-> <<"sections", secs[i].id>>,
      tokens_approx |-> IF exact THEN secs[i].tokens.exact
                        ELSE secs[i].tokens.approx,
      sha256 |-> compute_sha256(secs[i].content)]]

\* create_manifest(filing_meta, sections, artifacts, warnings, tokens_total,
\* source_url); exact tells whether count_tokens() counts with tiktoken.
create_manifest(filing_meta, secs, artifacts, warnings, tokens_total, exact) ==
  [generated_at |-> stable_at(filing_meta.filing_date),
   source |-> [url |-> filing_meta.url, fetched_at |-> stable_at(filing_meta.filing_date)],
   filing |-> [accession |-> filing_meta.accession,
               filing_date |-> filing_meta.filing_date],
   sections |-> SectionInfos(secs, exact),
   artifacts |-> artifacts,
   warnings |-> warnings,
   tokens_total |-> tokens_total]

\* datetime in JSON mode: the ISO 8601 text, as its fields in order
IsoFormat(t) == <<t.year, "-", t.month, "-", t.day, "T", t.hour, ":00:00", "Z">>

\* Lines 150-154: json.dumps(payload, indent=2, sort_keys=True) + "\n", as
\* the keys in sorted order, each with its value, and the final newline.
ManifestBytes(m) ==
  << <<"artifacts", m.artifacts>>,
     <<"filing", m.filing>>,
     <<"generated_at", IsoFormat(m.generated_at)>>,
     <<"sections", m.sections>>,
     <<"source", <<"fetched_at", IsoFormat(m.source.fetched_at), "url", m.source.url>>>>,
     <<"tokens_total", m.tokens_total>>,
     <<"warnings", m.warnings>>,
     NL >>

(***************************************************************************)
(* build_pack() (pack/build.py) as a state machine over the pack directory *)
(***************************************************************************)
MaxRuns == 2

FILING_FULL_MD == <<"filing.full.md">>
LLMS_TXT == <<"llms.txt">>
MANIFEST_JSON == <<"manifest.json">>
CHUNKS_NDJSON == <<"optional", "chunks.ndjson">>
XBRL_JSON == <<"optional", "xbrl.json">>

SectionPath(id) == <<"sections", id>>

W_APPROXIMATE == "Token counts are approximate (tiktoken not installed)"
W_NO_CHUNKS == "Failed to generate chunks"
W_NO_XBRL == "No XBRL data available for this filing"
W_XBRL_FAILED == "Failed to fetch XBRL data"

FILING_DATE == [year |-> 2024, month |-> 1, day |-> 15]

\* What the in-memory pipeline makes of the filings build_pack() is run on:
\* the metadata, the markdown and the sections sectionize() returns for it.
FilingBank ==
  << [meta |-> [accession |-> "a1", filing_date |-> FILING_DATE, url |-> "u1"],
      markdown |-> "m1", tokens |-> [exact |-> 3, approx |-> 2],
      sections |-> << [id |-> "unknown_00", content |-> "m1",
                       tokens |-> [exact |-> 3, approx |-> 2],
                       warnings |-> <<"No section headings detected in document">>] >>],
     [meta |-> [accession |-> "a1", filing_date |-> FILING_DATE, url |-> "u1"],
      markdown |-> "m2", tokens |-> [exact |-> 5, approx |-> 6],
      sections |-> << [id |-> "unknown_00", content |-> "c1",
                       tokens |-> [exact |-> 2, approx |-> 3],
                       warnings |-> <<"Content before first detected section">>],
                      [id |-> "item_1", content |-> "c2",
                       tokens |-> [exact |-> 3, approx |-> 3],
                       warnings |-> <<>>] >>],
     [meta |-> [accession |-> "a1", filing_date |-> FILING_DATE, url |-> "u1"],
      markdown |-> "m3", tokens |-> [exact |-> 4, approx |-> 4],
      sections |-> << [id |-> "item_1", content |-> "c3",
                       tokens |-> [exact |-> 2, approx |-> 2],
                       warnings |-> <<>>],
                      [id |-> "item_1", content |-> "c4",
                       tokens |-> [exact |-> 2, approx |-> 2],
                       warnings |-> <<>>] >>] >>

Filing == FilingBank[filing]

\* path.write_text(bytes)
Write(d, path, bytes) == (path :> bytes) @@ d

\* Lines 129-137: the stages of the in-memory pipeline, in order.
PIPELINE == <<"strip_ixbrl", "clean_html", "reduce_to_semantic", "render_markdown",
              "sectionize">>

Stages(names) == {names[i] : i \in 1..Len(names)}

\* Lines 140-141: the warnings of the secs, in order.
RECURSIVE SectionWarnings(_)
SectionWarnings(secs) ==
  IF secs = <<>> THEN <<>>
  ELSE secs[1].warnings \o SectionWarnings(Tail(secs))

\* A build that reports no approximate counts.
ApproximateSilent(exact) == <<>>

\* Lines 183-184: the warning of approximate token counts.
Approximate(exact) == IF ~exact THEN <<W_APPROXIMATE>> ELSE <<>>

\* No artifact is hashed.
HashedNone(artifact, d) == FALSE

\* Line 200: the artifacts that are hashed.
Hashed(artifact, d) == artifact \in DOMAIN d /\ artifact # MANIFEST_JSON

\* Lines 197-201: artifact_hashes
ArtifactHashes(artifacts, d) ==
  [a \in {x \in Stages(artifacts) : Hashed(x, d)} |-> compute_sha256(d[a])]

\* The step that follows the directories being made, when the files are
\* written before the pipeline has run.
AfterMkdirWrite == "write_full"

\* Lines 109-113: what follows the directories being made.
AfterMkdir == "transform"

\* A forced rebuild that leaves the old pack where it is.
RmtreeNever(d, exists, force) == d

\* Lines 106-107: shutil.rmtree(pack_dir) when the pack is there and force is given.
Rmtree(d, exists, force) == IF exists /\ force THEN <<>> ELSE d

PackInit ==
  /\ filing \in 1..Len(FilingBank)
  /\ has_tiktoken \in BOOLEAN
  /\ clock = 0
  /\ disk = <<>>
  /\ pack_dir = FALSE
  /\ opts = NoOpts
  /\ build_pc = "ready"
  /\ section_i = 0
  /\ build_warnings = <<>>
  /\ build_artifacts = <<>>
  /\ manifest = <<>>
  /\ transformed = {}
  /\ wrote = {}
  /\ written = <<>>
  /\ SectIdle
  /\ ChunkIdle
  /\ CleanIdle
  /\ IxIdle
  /\ NormIdle
  /\ FetchIdle

Running == build_pc \in {"transform", "write_full", "write_sections", "chunks",
                         "xbrl", "llms", "manifest"}

\* self writes bytes to path and records it as an artifact.
WriteArtifact(path, bytes) ==
  /\ disk' = Write(disk, path, bytes)
  /\ build_artifacts' = Append(build_artifacts, path)
  /\ wrote' = wrote \cup {path}

\* Lines 61-110: build_pack() is called; a pack that is there is returned
\* unless force is given, and removed if it is; the directories are made.
CallBuild ==
  /\ build_pc \in {"ready", "done", "returned", "failed"}
  /\ clock < MaxRuns
  /\ clock' = clock + 1
  /\ opts' \in [with_chunks : BOOLEAN, with_xbrl : BOOLEAN, force : BOOLEAN]
  /\ build_warnings' = <<>>
  /\ build_artifacts' = <<>>
  /\ manifest' = <<>>
  /\ transformed' = {}
  /\ wrote' = {}
  /\ section_i' = 0
  /\ IF pack_dir /\ ~opts'.force /\ MANIFEST_JSON \in DOMAIN disk
     THEN /\ build_pc' = "returned"
          /\ UNCHANGED <<disk, pack_dir>>
     ELSE /\ disk' = Rmtree(disk, pack_dir, opts'.force)
          /\ pack_dir' = TRUE
          /\ build_pc' = AfterMkdir
  /\ UNCHANGED <<filing, has_tiktoken, written, notPack>>

\* Lines 113-141: the HTML is fetched and run through the pipeline, the
\* markdown is sectionized and the warnings of the sections are collected.
Transform ==
  /\ build_pc = "transform"
  /\ transformed' = Stages(PIPELINE)
  /\ build_warnings' = build_warnings \o SectionWarnings(Filing.sections)
  /\ build_pc' = "write_full"
  /\ UNCHANGED <<filing, has_tiktoken, clock, disk, pack_dir, opts, section_i,
                 build_artifacts, manifest, wrote, written, notPack>>

\* Lines 144-146
WriteFull ==
  /\ build_pc = "write_full"
  /\ WriteArtifact(FILING_FULL_MD, Filing.markdown)
  /\ build_pc' = "write_sections"
  /\ UNCHANGED <<filing, has_tiktoken, clock, pack_dir, opts, section_i,
                 build_warnings, manifest, transformed, written, notPack>>

\* Lines 149-152: one turn of the loop over the sections
WriteSection ==
  /\ build_pc = "write_sections"
  /\ section_i < Len(Filing.sections)
  /\ WriteArtifact(SectionPath(Filing.sections[section_i + 1].id),
                   Filing.sections[section_i + 1].content)
  /\ section_i' = section_i + 1
  /\ UNCHANGED <<filing, has_tiktoken, clock, pack_dir, opts, build_pc,
                 build_warnings, manifest, transformed, written, notPack>>

\* Lines 155-161: the chunks are generated and written when asked for; a
\* failure is turned into a warning.
GenerateChunks ==
  /\ build_pc = "write_sections"
  /\ section_i = Len(Filing.sections)
  /\ build_pc' = "xbrl"
  /\ \/ /\ ~opts.with_chunks
        /\ UNCHANGED <<disk, build_artifacts, wrote, build_warnings, transformed>>
     \/ /\ opts.with_chunks
        /\ WriteArtifact(CHUNKS_NDJSON, <<"chunks", Filing.markdown, has_tiktoken>>)
        /\ transformed' = transformed \cup {"generate_chunks"}
        /\ UNCHANGED build_warnings
     \/ /\ opts.with_chunks
        /\ build_warnings' = Append(build_warnings, W_NO_CHUNKS)
        /\ UNCHANGED <<disk, build_artifacts, wrote, transformed>>
  /\ UNCHANGED <<filing, has_tiktoken, clock, pack_dir, opts, section_i,
                 manifest, written, notPack>>

\* Lines 164-179: the XBRL facts are fetched and written when asked for; no
\* data and a failure are turned into warnings.
FetchXbrl ==
  /\ build_pc = "xbrl"
  /\ build_pc' = "llms"
  /\ \/ /\ ~opts.with_xbrl
        /\ UNCHANGED <<disk, build_artifacts, wrote, build_warnings>>
     \/ /\ opts.with_xbrl
        /\ WriteArtifact(XBRL_JSON, <<"facts", Filing.meta.accession>>)
        /\ UNCHANGED build_warnings
     \/ /\ opts.with_xbrl
        /\ \E w \in {W_NO_XBRL, W_XBRL_FAILED} :
             build_warnings' = Append(build_warnings, w)
        /\ UNCHANGED <<disk, build_artifacts, wrote>>
  /\ UNCHANGED <<filing, has_tiktoken, clock, pack_dir, opts, section_i,
                 manifest, transformed, written, notPack>>

\* Lines 182-194: the tokens are counted and llms.txt is written.
WriteLlms ==
  /\ build_pc = "llms"
  /\ build_warnings' = build_warnings \o Approximate(has_tiktoken)
  /\ WriteArtifact(LLMS_TXT,
                   <<"llms", Filing.meta, Filing.sections,
                     opts.with_chunks /\ CHUNKS_NDJSON \in Stages(build_artifacts),
                     opts.with_xbrl /\ XBRL_JSON \in Stages(build_artifacts)>>)
  /\ build_pc' = "manifest"
  /\ UNCHANGED <<filing, has_tiktoken, clock, pack_dir, opts, section_i,
                 manifest, transformed, written, notPack>>

\* The arguments create_manifest() is called with.
ManifestArgs(d) ==
  [filing_meta |-> Filing.meta,
   sections |-> Filing.sections,
   artifacts |-> ArtifactHashes(build_artifacts, d),
   warnings |-> build_warnings,
   tokens_total |-> IF has_tiktoken THEN Filing.tokens.exact ELSE Filing.tokens.approx]

Created(a) ==
  create_manifest(a.filing_meta, a.sections, a.artifacts, a.warnings, a.tokens_total,
                  has_tiktoken)

\* Lines 197-229: the artifacts are hashed, the manifest is created and
\* written, and build_pack() returns.
WriteManifest ==
  /\ build_pc = "manifest"
  /\ manifest' = Created(ManifestArgs(disk))
  /\ WriteArtifact(MANIFEST_JSON, ManifestBytes(manifest'))
  /\ written' = Append(written, [args |-> ManifestArgs(disk), at |-> Now,
                                 bytes |-> ManifestBytes(manifest')])
  /\ build_pc' = "done"
  /\ UNCHANGED <<filing, has_tiktoken, clock, pack_dir, opts, section_i,
                 build_warnings, transformed, notPack>>

\* An exception leaves build_pack(): the fetch fails, there is no HTML, a
\* stage of the pipeline or a write raises.
Raise ==
  /\ Running
  /\ build_pc' = "failed"
  /\ UNCHANGED <<filing, has_tiktoken, clock, disk, pack_dir, opts, section_i,
                 build_warnings, build_artifacts, manifest, transformed, wrote,
                 written, notPack>>

PackNext ==
  \/ CallBuild
  \/ Transform
  \/ WriteFull
  \/ WriteSection
  \/ GenerateChunks
  \/ FetchXbrl
  \/ WriteLlms
  \/ WriteManifest
  \/ Raise

SpecPack == PackInit /\ [][PackNext]_vars

(***************************************************************************)
(* Claims about the manifest and the build                                 *)
(***************************************************************************)
\* The value of a top-level key in the bytes of a manifest.
Value(bytes, key) ==
  bytes[CHOOSE k \in 1..(Len(bytes) - 1) : bytes[k][1] = key][2]

\* C7: generated_at and source.fetched_at of every manifest written are
\* midnight UTC of the filing date, the manifest ends with a newline, and
\* two manifests created from the same arguments have the same bytes,
\* whatever the time they were written at.
C7_ManifestDeterministic ==
  /\ \A i \in 1..Len(written) :
       LET midnight == [year |-> written[i].args.filing_meta.filing_date.year,
                        month |-> written[i].args.filing_meta.filing_date.month,
                        day |-> written[i].args.filing_meta.filing_date.day,
                        hour |-> 0, tz |-> "UTC"]
       IN /\ Value(written[i].bytes, "generated_at") = IsoFormat(midnight)
          /\ Value(written[i].bytes, "source")[2] = IsoFormat(midnight)
          /\ written[i].bytes[Len(written[i].bytes)] = NL
  /\ \A i, j \in 1..Len(written) :
       written[i].args = written[j].args => written[i].bytes = written[j].bytes

\* Two manifests were created from the same arguments at different times.
C7_Witness ==
  \E i, j \in 1..Len(written) :
    /\ written[i].args = written[j].args
    /\ written[i].at # written[j].at
    /\ DOMAIN written[i].args.artifacts # {}

\* C8: when build_pack() has completed, the artifacts of the manifest it
\* wrote have no entry for manifest.json and one entry for every other file
\* the build wrote, which is the SHA-256 of the bytes of the file on disk.
C8_ArtifactsComplete ==
  build_pc = "done" =>
    LET recorded == Value(disk[MANIFEST_JSON], "artifacts")
    IN /\ MANIFEST_JSON \notin DOMAIN recorded
       /\ DOMAIN recorded = wrote \ {MANIFEST_JSON}
       /\ \A path \in DOMAIN recorded : recorded[path] = <<"sha256", disk[path]>>

\* A build completed that wrote the chunks, the XBRL facts and two sections
\* of the same ID.
C8_Witness ==
  /\ build_pc = "done"
  /\ {CHUNKS_NDJSON, XBRL_JSON, FILING_FULL_MD, LLMS_TXT} \subseteq wrote
  /\ Len(Filing.sections) = 2
  /\ Filing.sections[1].id = Filing.sections[2].id

\* C17: when build_pack() has completed, the warnings of the manifest it
\* wrote hold every warning of every section, and the warning of approximate
\* token counts exactly when tiktoken is not there.
C17_WarningsReported ==
  build_pc = "done" =>
    LET reported == Value(disk[MANIFEST_JSON], "warnings")
        has(w) == \E k \in 1..Len(reported) : reported[k] = w
    IN /\ \A i \in 1..Len(Filing.sections) :
            \A k \in 1..Len(Filing.sections[i].warnings) :
              has(Filing.sections[i].warnings[k])
       /\ has(W_APPROXIMATE) <=> ~has_tiktoken

\* A build completed without tiktoken on a filing with a section warning.
C17_Witness ==
  /\ build_pc = "done"
  /\ ~has_tiktoken
  /\ \E i \in 1..Len(Filing.sections) : Filing.sections[i].warnings # <<>>

\* C19, as stated: no file is written before every stage of the pipeline,
\* and the chunking when it is asked for, has completed.
C19_WritesAfterAllStages ==
  wrote # {} =>
    /\ Stages(PIPELINE) \subseteq transformed
    /\ opts.with_chunks => "generate_chunks" \in transformed

\* C19, amended: no file is written before strip_ixbrl, clean_html,
\* reduce_to_semantic, render_markdown and sectionize have completed.
C19_WritesAfterPipeline ==
  wrote # {} => Stages(PIPELINE) \subseteq transformed

\* The full markdown and a section were written, the chunks were asked for
\* and are not generated yet.
C19_Witness ==
  /\ build_pc = "write_sections"
  /\ opts.with_chunks
  /\ Cardinality(wrote) >= 2
  /\ "generate_chunks" \notin transformed

\* Whether the manifest on the disk d records, for every path of its
\* artifacts, the SHA-256 of the bytes that d holds at the path.
ManifestSound(d) ==
  LET recorded == Value(d[MANIFEST_JSON], "artifacts")
  IN \A path \in DOMAIN recorded :
       path \in DOMAIN d /\ recorded[path] = <<"sha256", d[path]>>

\* C30: over runs of build_pack() that complete, return the pack that is
\* there or fail at any step, forced or not: while manifest.json is in the
\* pack directory, every path of its artifacts is on disk with the SHA-256
\* it records; no file is written while it is there, and the one change of
\* the disk is the removal of the whole pack by a forced rebuild.
C30_ManifestSound ==
  /\ []((MANIFEST_JSON \in DOMAIN disk) => ManifestSound(disk))
  /\ [][(MANIFEST_JSON \in DOMAIN disk /\ disk' # disk) =>
          (disk' = <<>> /\ opts'.force /\ build_pc' = "transform")]_vars

\* A forced rebuild has completed over a pack that was complete, and wrote
\* another manifest than the one that was there.
C30_Witness ==
  /\ build_pc = "done"
  /\ clock = 2
  /\ opts.force
  /\ Len(written) = 2
  /\ written[1].bytes # written[2].bytes
  /\ MANIFEST_JSON \in DOMAIN disk

(***************************************************************************)
(* The HTTP client (sec/client.py): one SECClient, one _fetch_with_retry() *)
(***************************************************************************)
\* max_retries is given as -1, 0, ..., MaxRetriesArg.
MaxRetriesArg == 3

\* The seconds the backoff stops at.
BACKOFF_MAX == 10

\* No Retry-After header, or one that does not parse.
NoRetryAfter == -1

\* What _fetch_sync() does: it raises, or it returns a status and headers
\* that hold a Retry-After or none.
Outcomes ==
  {[kind |-> "exception", status |-> 0, retry_after |-> NoRetryAfter]}
    \cup [kind : {"response"}, status : {0, 200, 399, 400, 404, 429, 499, 500, 503},
          retry_after : {NoRetryAfter, 0, 60}]

\* A client that takes max_retries as it is given.
RetriesAsGiven(max_retries) == max_retries

\* Line 75: max(1, int(max_retries))
MaxRetriesOf(max_retries) == IF max_retries < 1 THEN 1 ELSE max_retries

\* min(backoff * 2.0, 10.0)
NextBackoff(b) == IF b * 2 < BACKOFF_MAX THEN b * 2 ELSE BACKOFF_MAX

FetchInit ==
  /\ retries_arg \in -1..MaxRetriesArg
  /\ client_retries = 0
  /\ attempt = 0
  /\ backoff = 0
  /\ acquired = 0
  /\ tried = <<>>
  /\ slept = <<>>
  /\ fetch_error = "none"
  /\ fetch_pc = "new"
  /\ SectIdle
  /\ ChunkIdle
  /\ CleanIdle
  /\ IxIdle
  /\ PackIdle
  /\ NormIdle

\* SECClient(max_retries=...) (lines 67-75)
Construct ==
  /\ fetch_pc = "new"
  /\ client_retries' = MaxRetriesOf(retries_arg)
  /\ fetch_pc' = "ready"
  /\ UNCHANGED <<retries_arg, attempt, backoff, acquired, tried, slept, fetch_error>>
  /\ UNCHANGED notFetch

\* Line 103: the loop goes to the attempt a, or is over and line 128 raises.
LoopTo(a) ==
  /\ attempt' = a
  /\ fetch_pc' = IF a <= client_retries THEN "acquire" ELSE "unreachable"

\* _fetch_with_retry(url) is called (lines 100-103).
CallFetch ==
  /\ fetch_pc = "ready"
  /\ backoff' = 1
  /\ LoopTo(1)
  /\ UNCHANGED <<retries_arg, client_retries, acquired, tried, slept, fetch_error>>
  /\ UNCHANGED notFetch

\* await self._rate_limiter.acquire() returns (line 104).
Acquire ==
  /\ fetch_pc = "acquire"
  /\ acquired' = acquired + 1
  /\ fetch_pc' = "fetch"
  /\ UNCHANGED <<retries_arg, client_retries, attempt, backoff, tried, slept, fetch_error>>
  /\ UNCHANGED notFetch

\* Lines 108-112 and 116-121: the error is raised on the last attempt, else
\* the client sleeps, doubles the backoff and goes on.
RaiseOrRetry(error, seconds) ==
  IF attempt >= client_retries
  THEN /\ fetch_error' = error
       /\ fetch_pc' = "raised"
       /\ UNCHANGED <<attempt, backoff, slept>>
  ELSE /\ slept' = Append(slept, seconds)
       /\ backoff' = NextBackoff(backoff)
       /\ LoopTo(attempt + 1)
       /\ UNCHANGED fetch_error

\* _fetch_sync() raises (lines 105-112).
TransportError ==
  /\ fetch_pc = "fetch"
  /\ \E o \in {x \in Outcomes : x.kind = "exception"} :
       /\ tried' = Append(tried, o)
       /\ RaiseOrRetry("exception", backoff)
  /\ UNCHANGED <<retries_arg, client_retries, acquired>>
  /\ UNCHANGED notFetch

\* _fetch_sync() returns a status (lines 105-126).
Response ==
  /\ fetch_pc = "fetch"
  /\ \E o \in {x \in Outcomes : x.kind = "response"} :
       /\ tried' = Append(tried, o)
       /\ IF o.status = 429 \/ o.status >= 500
          THEN RaiseOrRetry("HTTPError",
                            IF o.retry_after # NoRetryAfter THEN o.retry_after ELSE backoff)
          ELSE /\ fetch_error' = IF o.status >= 400 THEN "HTTPError" ELSE "none"
               /\ fetch_pc' = IF o.status >= 400 THEN "raised" ELSE "returned"
               /\ UNCHANGED <<attempt, backoff, slept>>
  /\ UNCHANGED <<retries_arg, client_retries, acquired>>
  /\ UNCHANGED notFetch

FetchNext ==
  \/ Construct
  \/ CallFetch
  \/ Acquire
  \/ TransportError
  \/ Response

SpecFetch == FetchInit /\ [][FetchNext]_vars

\* Whether an attempt ended in a way that is retried.
Retryable(o) == o.kind = "exception" \/ o.status = 429 \/ o.status >= 500

\* The last attempt.
LastTried == tried[Len(tried)]

\* C29: _fetch_with_retry makes at most max(1, max_retries) attempts, each
\* after one acquire of the rate limiter; every attempt but the last ended in
\* an exception or a status 429 or >= 500; an attempt with a status below 400
\* is the last and the call returns; one with another status >= 400 is the
\* last and HTTPError is raised; and when the last allowed attempt ends in an
\* exception or in 429 or >= 500, the exception or HTTPError is raised.
C29_RetryDiscipline ==
  /\ Len(tried) <= AtLeastOne(retries_arg)
  /\ acquired = Len(tried) + (IF fetch_pc = "fetch" THEN 1 ELSE 0)
  /\ \A i \in 1..(Len(tried) - 1) : Retryable(tried[i])
  /\ fetch_pc # "unreachable"
  /\ (fetch_pc = "returned") <=>
       (tried # <<>> /\ LastTried.kind = "response" /\ LastTried.status < 400)
  /\ (fetch_pc = "raised") <=>
       /\ tried # <<>>
       /\ \/ (LastTried.kind = "response" /\ LastTried.status >= 400
                /\ ~Retryable(LastTried))
          \/ (Retryable(LastTried) /\ Len(tried) = AtLeastOne(retries_arg))
  /\ (fetch_pc = "raised") =>
       (fetch_error = IF LastTried.kind = "exception" THEN "exception" ELSE "HTTPError")
  /\ (fetch_pc # "raised") => (fetch_error = "none")

\* With max_retries 3, an exception and then a 429 were retried, and the 503
\* of the third attempt was raised as HTTPError, after three acquires.
C29_Witness ==
  /\ fetch_pc = "raised"
  /\ Len(tried) = 3
  /\ tried[1].kind = "exception"
  /\ tried[2].status = 429
  /\ tried[3].status = 503
  /\ fetch_error = "HTTPError"
  /\ acquired = 3

=====
